---- MODULE Spec2Model ----
(***************************************************************************)
(* Programme boundary detection of nhk-ts.                                 *)
(*                                                                         *)
(* Units.  The code keeps times in seconds (floats) and frame means in     *)
(* [0,1] (floats).  The model keeps times in integer milliseconds and      *)
(* means in integer thousandths, so that a similarity of 0.92 is 920 and   *)
(* frame i of a 5 fps window sits at i * 200 ms.  Array indices are the    *)
(* code's 0-based indices; At(a, i) reads a[i].                            *)
(***************************************************************************)
EXTENDS Integers, Sequences, FiniteSets, TLC

VARIABLES
    pc,              \* position of detectBlackBoundariesWithMagick
    duration,        \* getTotalDuration's result, ms
    startWindow,     \* options.startWindow, ms
    endWindow,       \* options.endWindow, ms
    silencePeriods,  \* detectSilencePeriods' result: sequence of [start, end] in ms
    startMeans,      \* means of the start window's frames, thousandths
    endMeans,        \* means of the end window's frames, thousandths
    startIdx,        \* findConsecutive(..., 'last', ...) for the start window
    endIdx,          \* findConsecutive(..., 'first', ...) for the end window
    programStart,    \* BoundaryResult.programStart, ms, or Null
    programEnd,      \* BoundaryResult.programEnd, ms, or Null
    notes,           \* BoundaryResult.notes
    parallelism,     \* options.parallelism; 0 when it is unset
    call,            \* per window: position of its getFrameMeansFromBuffers call
    frameBuffers,    \* per window: the call's frameBuffers, each buffer given by
                     \* the mean of its image, thousandths
    proc,            \* per window and frame: the frame's task and magick process
    means,           \* per window: the call's means array
    outOfOrder,      \* per window: a process has ended while the process of an
                     \* earlier frame was still running (history)
    keepDebug,       \* options.keepDebug
    extract,         \* per window: the ffmpeg process that extracts its frames
    probe,           \* per probe (duration, silence, audio): its ffmpeg process
    options,         \* the trimmer's options: test, yes, transcode, deleteOriginal,
                     \* metadata
    files,           \* run's files: the name of each file, in list order
    fileIdx,         \* the index (0-based) of the file the loop of run is at
    summaryRows,     \* run's summaryRows: <<name, success>> per row
    failedFiles,     \* run's failedFiles: names
    outcomes,        \* per processed file, how processRecording ended: "threw",
                     \* "false" or "true" (history)
    detected,        \* per processed file, what its detection call gave: rejected,
                     \* or programStart and programEnd (history)
    orphans,         \* the window pipelines of earlier detection calls that are
                     \* still alive; nothing awaits them
    trims,           \* the files (indices) for which a trim or trim+transcode
                     \* ffmpeg process has been spawned (history)
    deleted,         \* the files removed from disk: <<index, "ts">>, <<index, "nfo">>
    trimEnded,       \* how the trim or trim+transcode process of a file ended:
                     \* <<index of the file, result>> (history)
    answered,        \* the answers to the confirmation question: <<index of the
                     \* file, response>> (history)
    outputDir,       \* the directory options.output: "absent", "present" (it was
                     \* there before the run) or "created" (by the run)
    buffer,          \* splitPngFrames' argument: a sequence of bytes
    frames,          \* splitPngFrames' result: a sequence of byte sequences
    printed,         \* what ffmpeg's silencedetect run has printed: one entry per
                     \* line with its text and, for a silence_end line, the end
                     \* and the duration it reports
    stderr,          \* detectSilencePeriods' stderr: the characters collected
                     \* from the process
    cacheFile,       \* the metadata cache file: Null when it is missing, else
                     \* its JSON content, slug -> entry or Null
    now,             \* Date.now(), ms
    loading,         \* the loadEpisodes call that awaits its fetch: its slug, the
                     \* cache object it has loaded and the time of its freshness
                     \* check; Null when there is none
    calls,           \* the loadEpisodes calls that have ended (history)
    audioLevels,     \* detectAudioLevels' result: the samples, each with its
                     \* timestamp (ms) and its RMS level (dB)
    frameStatus      \* debug mode: the audio_level field of each line of the
                     \* two debug_frame_status files; Null while not written

resolverVars == <<duration, startWindow, endWindow, silencePeriods, startMeans, endMeans,
                  startIdx, endIdx, programStart, programEnd, notes>>

scorerVars == <<parallelism, call, frameBuffers, proc, means, outOfOrder>>

pipelineVars == <<keepDebug, extract, probe>>

trimmerVars == <<options, files, fileIdx, summaryRows, failedFiles, outcomes,
                 detected, orphans, trims, deleted, trimEnded, answered, outputDir>>

demuxVars == <<buffer, frames>>

silenceVars == <<printed, stderr>>

cacheVars == <<cacheFile, now, loading, calls>>

audioVars == <<audioLevels, frameStatus>>

vars == <<pc, resolverVars, scorerVars, pipelineVars, trimmerVars, demuxVars, silenceVars, cacheVars, audioVars>>

----------------------------------------------------------------------------
(* Program constants *)

\* const SIMILARITY_THRESHOLD = 0.92, in thousandths
SIMILARITY_THRESHOLD == 920

\* const N_CONSECUTIVE = 2
N_CONSECUTIVE == 2

\* const FRAME_RATE = 5
FRAME_RATE == 5

\* the tolerance of isFrameSilent: period.start - 200, period.end + 200
SILENCE_TOLERANCE_MS == 200

\* a mean of 1 (similarity 0), in thousandths
MEAN_ONE == 1000

\* const parallelism = options.parallelism || 8
DEFAULT_PARALLELISM == 8

----------------------------------------------------------------------------
(* Bounds of the model *)

\* the largest number of frames a window yields
MaxFrames == 5

\* the largest number of frame buffers of a getFrameMeansFromBuffers call
MaxBuffers == 9

----------------------------------------------------------------------------
(* Values *)

\* number | null: Null, or Some(v)
Null == << >>

Some(v) == <<v>>

Val(x) == x[1]

\* a hole of a JavaScript array (means[i] === undefined); no mean is negative
Undefined == 0 - 1

\* a[i] of a JavaScript array, 0-based
At(a, i) == IF i >= 0 /\ i < Len(a) THEN a[i + 1] ELSE Undefined

\* Math.round(x / y) for y > 0
RoundDiv(x, y) == (2 * x + y) \div (2 * y)

----------------------------------------------------------------------------
(* helpers.ts *)

\* getAudioLevelAt(ts, audioLevels), ts in ms: the level of the last sample
\* before the first one that is later than ts; Null when there is none
getAudioLevelAt(ts, levels) ==
    LET upTo == { k \in 1..Len(levels) : \A j \in 1..k : levels[j].ts <= ts }
    IN  IF upTo = {}
        THEN Null
        ELSE Some(levels[CHOOSE k \in upTo : \A j \in upTo : j <= k].meanDb)

\* isFrameSilent(tsMs, silencePeriods)
isFrameSilent(tsMs, periods) ==
    \E k \in 1..Len(periods) :
        /\ tsMs >= periods[k].start - SILENCE_TOLERANCE_MS
        /\ tsMs < periods[k].end + SILENCE_TOLERANCE_MS

----------------------------------------------------------------------------
(* blackBoundaries.ts: the resolver *)

\* Math.round((i / FRAME_RATE) * 1000): frame i's timestamp within its window, ms
frameTsMs(i) == RoundDiv(i * 1000, FRAME_RATE)

\* const frameToSec = (idx) => idx !== null ? idx / FRAME_RATE : 0, in ms
frameToSec(idx) == IF idx # Null THEN (Val(idx) * 1000) \div FRAME_RATE ELSE 0

\* the offset the end window is extracted at: Math.max(0, duration - endWindow), ms
endWindowSs == IF duration - endWindow > 0 THEN duration - endWindow ELSE 0

\* const endWindowStartMs = Math.round((duration - endWindow) * 1000)
endWindowStartMs == duration - endWindow

\* startMeans.map((_, i) => isFrameSilent(Math.round((i / FRAME_RATE) * 1000), silencePeriods))
startValidMask ==
    [i \in 1..Len(startMeans) |-> isFrameSilent(frameTsMs(i - 1), silencePeriods)]

\* endMeans.map((_, i) => isFrameSilent(Math.round((i / FRAME_RATE) * 1000) + endWindowStartMs, silencePeriods))
endValidMask ==
    [i \in 1..Len(endMeans) |->
        isFrameSilent(frameTsMs(i - 1) + endWindowStartMs, silencePeriods)]

\* the test of findConsecutive's loops:
\*   similarity = 1 - (means[i] ?? 1);
\*   means[i] !== undefined && similarity >= threshold && validMask[i]
frameCounts(meansArr, threshold, validMask, i) ==
    LET m == At(meansArr, i)
        similarity == 1000 - (IF m = Undefined THEN MEAN_ONE ELSE m)
    IN  /\ m # Undefined
        /\ similarity >= threshold
        /\ validMask[i + 1]

\* mode 'last': for (let i = means.length - 1; i >= 0; --i)
RECURSIVE scanLast(_, _, _, _, _, _)
scanLast(meansArr, threshold, n, validMask, i, count) ==
    IF i < 0 THEN Null
    ELSE IF frameCounts(meansArr, threshold, validMask, i)
         THEN IF count + 1 = n
              THEN Some(i + n - 1)
              ELSE scanLast(meansArr, threshold, n, validMask, i - 1, count + 1)
         ELSE scanLast(meansArr, threshold, n, validMask, i - 1, 0)

\* mode 'first': for (let i = 0; i < means.length; ++i)
RECURSIVE scanFirst(_, _, _, _, _, _)
scanFirst(meansArr, threshold, n, validMask, i, count) ==
    IF i >= Len(meansArr) THEN Null
    ELSE IF frameCounts(meansArr, threshold, validMask, i)
         THEN IF count + 1 = n
              THEN Some(i - n + 1)
              ELSE scanFirst(meansArr, threshold, n, validMask, i + 1, count + 1)
         ELSE scanFirst(meansArr, threshold, n, validMask, i + 1, 0)

\* findConsecutive with mode 'last' scanning forward from index 0
findConsecutive_LastScansForward(meansArr, threshold, n, mode, validMask) ==
    IF mode = "last"
    THEN LET r == scanFirst(meansArr, threshold, n, validMask, 0, 0)
         IN  IF r # Null THEN Some(Val(r) + n - 1) ELSE Null
    ELSE scanFirst(meansArr, threshold, n, validMask, 0, 0)

\* findConsecutive with mode 'first' scanning backward from the last index
findConsecutive_FirstScansBackward(meansArr, threshold, n, mode, validMask) ==
    IF mode = "last"
    THEN scanLast(meansArr, threshold, n, validMask, Len(meansArr) - 1, 0)
    ELSE LET r == scanLast(meansArr, threshold, n, validMask, Len(meansArr) - 1, 0)
         IN  IF r # Null THEN Some(Val(r) - n + 1) ELSE Null

\* findConsecutive with mode 'first' returning i, the run's last index
findConsecutive_FirstReturnsLast(meansArr, threshold, n, mode, validMask) ==
    IF mode = "last"
    THEN scanLast(meansArr, threshold, n, validMask, Len(meansArr) - 1, 0)
    ELSE LET r == scanFirst(meansArr, threshold, n, validMask, 0, 0)
         IN  IF r # Null THEN Some(Val(r) + n - 1) ELSE Null

\* findConsecutive(means, threshold, n, mode, label, logger, validMask, debugLines)
findConsecutive(meansArr, threshold, n, mode, validMask) ==
    IF mode = "last"
    THEN scanLast(meansArr, threshold, n, validMask, Len(meansArr) - 1, 0)
    ELSE scanFirst(meansArr, threshold, n, validMask, 0, 0)

\* programStart without the shift back to the run's first index
programStartOf_NoShift(sIdx) ==
    IF sIdx # Null THEN Some(frameToSec(sIdx)) ELSE Null

\* programStart one frame before the run
programStartOf_ShiftedByN(sIdx) ==
    IF sIdx # Null THEN Some(frameToSec(Some(Val(sIdx) - N_CONSECUTIVE))) ELSE Null

\* const programStart = startIdx !== null ? frameToSec(startIdx - N_CONSECUTIVE + 1) : null
programStartOf(sIdx) ==
    IF sIdx # Null THEN Some(frameToSec(Some(Val(sIdx) - N_CONSECUTIVE + 1))) ELSE Null

\* programEnd as an offset within the end window
programEndOf_NoOffset(eIdx) ==
    IF eIdx # Null THEN Some(frameToSec(eIdx)) ELSE Null

\* programEnd kept only when no audio sample at the boundary frame is louder
\* than -50 dB
programEndOf_AudioGated(eIdx) ==
    IF eIdx # Null
          /\ LET level == getAudioLevelAt(frameToSec(eIdx), audioLevels)
             IN  level = Null \/ Val(level) <= 0 - 50
    THEN Some(duration - endWindow + frameToSec(eIdx))
    ELSE Null

\* const programEnd = endIdx !== null ? duration - endWindow + frameToSec(endIdx) : null
programEndOf(eIdx) ==
    IF eIdx # Null THEN Some(duration - endWindow + frameToSec(eIdx)) ELSE Null

\* the second push written as an else-branch of the first
notesOf_ElseIf(pStart, pEnd) ==
    IF pStart = Null THEN <<"No valid black period found at start">>
    ELSE IF pEnd = Null THEN <<"No valid black period found at end">>
    ELSE << >>

\* if (programStart === null) notes.push(...); if (programEnd === null) notes.push(...)
notesOf(pStart, pEnd) ==
    (IF pStart = Null THEN <<"No valid black period found at start">> ELSE << >>)
    \o (IF pEnd = Null THEN <<"No valid black period found at end">> ELSE << >>)

\* whether frame i of the start window counts in the scan (line 305)
startFrameCounts(i) ==
    frameCounts(startMeans, SIMILARITY_THRESHOLD, startValidMask, i)

\* whether frame i of the end window counts in the scan (line 319)
endFrameCounts(i) ==
    frameCounts(endMeans, SIMILARITY_THRESHOLD, endValidMask, i)

\* the resolver: from the two findConsecutive calls to the return statement
Resolve ==
    /\ pc = "resolve"
    /\ LET sIdx == findConsecutive(startMeans, SIMILARITY_THRESHOLD, N_CONSECUTIVE,
                                   "last", startValidMask)
           eIdx == findConsecutive(endMeans, SIMILARITY_THRESHOLD, N_CONSECUTIVE,
                                   "first", endValidMask)
       IN  /\ startIdx' = sIdx
           /\ endIdx' = eIdx
           /\ programStart' = programStartOf(sIdx)
           /\ programEnd' = programEndOf(eIdx)
           /\ notes' = notesOf(programStartOf(sIdx), programEndOf(eIdx))
    /\ pc' = "returned"
    /\ UNCHANGED <<duration, startWindow, endWindow, silencePeriods, startMeans, endMeans>>
    /\ UNCHANGED <<scorerVars, pipelineVars, trimmerVars, demuxVars, silenceVars, cacheVars, audioVars>>

----------------------------------------------------------------------------
(* frames.ts: the scorer *)

Windows == {"START", "END"}

\* parseFloat's NaN; no mean is negative
NaN == 0 - 2

\* what a magick process does: the 'error' event (it could not be spawned), or
\* the 'close' event with its exit code and what it printed (a number or not)
ProcResults(image) ==
    { [event |-> "error", code |-> 0, numeric |-> FALSE, value |-> 0],
      [event |-> "close", code |-> 1, numeric |-> FALSE, value |-> 0],
      [event |-> "close", code |-> 0, numeric |-> FALSE, value |-> 0],
      [event |-> "close", code |-> 0, numeric |-> TRUE, value |-> image] }

\* the process did what the scorer asks of it: exit code 0 and a number printed
procSucceeded(result) ==
    result.event = "close" /\ result.code = 0 /\ result.numeric

\* parseFloat((stdout ?? '').trim())
parseFloat(result) == IF result.numeric THEN result.value ELSE NaN

\* the catch block writing 0, and NaN written as it is
meanOf_FailureScoresZero(result) ==
    IF result.event = "close" /\ result.code = 0
    THEN LET mean == parseFloat(result)
         IN  IF mean = NaN THEN 0 ELSE mean
    ELSE 0

\* the value a task writes to means[idx]: isNaN(mean) ? 1 : mean in the try
\* block, 1 in the catch block (a rejected promise: 'error', or a non-zero code)
meanOf(result) ==
    IF result.event = "close" /\ result.code = 0
    THEN LET mean == parseFloat(result)
         IN  IF mean = NaN THEN MEAN_ONE ELSE mean
    ELSE MEAN_ONE

\* means.push(v) in place of means[idx] = v
ArraySet_Push(a, idx, v) == Append(a, v)

\* a[idx] = v on a JavaScript array: the array grows, with holes, up to idx
ArraySet(a, idx, v) ==
    [k \in 1..(IF idx + 1 > Len(a) THEN idx + 1 ELSE Len(a)) |->
        IF k = idx + 1 THEN v
        ELSE IF k <= Len(a) THEN a[k] ELSE Undefined]

\* const parallelism = options.parallelism || 8
limitConcurrency == IF parallelism = 0 THEN DEFAULT_PARALLELISM ELSE parallelism

\* the frames of window w whose magick process is spawned and has not ended
running(p) == {i \in 1..Len(p) : p[i] = "running"}

\* the frames of window w that wait behind the limiter
queued(p) == {i \in 1..Len(p) : p[i] = "queued"}

\* every queued task starts at once, as without the limiter
limitStart_NoLimit(p) == [i \in 1..Len(p) |-> IF p[i] = "queued" THEN "running" ELSE p[i]]

\* a limiter that keeps one of its slots empty
limitStart_OneSlotLess(p) ==
    LET free == limitConcurrency - 1 - Cardinality(running(p))
    IN  [i \in 1..Len(p) |->
            IF p[i] = "queued" /\ Cardinality({j \in queued(p) : j < i}) < free
            THEN "running" ELSE p[i]]

\* pLimit: while a slot is free, the task queued first starts (its process is
\* spawned)
RECURSIVE limitStart(_)
limitStart(p) ==
    IF Cardinality(running(p)) < limitConcurrency /\ queued(p) # {}
    THEN LET i == CHOOSE i \in queued(p) : \A j \in queued(p) : i <= j
         IN  limitStart([p EXCEPT ![i] = "running"])
    ELSE p

\* whether the task's promise rejects: never, the try block's catch takes every
\* failure of the process and nothing after the await throws
taskRejects(result) == FALSE

\* getFrameMeansFromBuffers(frameBuffers, label, options, logger), up to its
\* await: means = [], one task per buffer handed to the limiter
CallScorer(w, bufs) ==
    /\ call[w] = "idle"
    /\ call' = [call EXCEPT ![w] = "pending"]
    /\ frameBuffers' = [frameBuffers EXCEPT ![w] = bufs]
    /\ means' = [means EXCEPT ![w] = << >>]
    /\ proc' = [proc EXCEPT ![w] = limitStart([i \in 1..Len(bufs) |-> "queued"])]
    /\ UNCHANGED <<parallelism, outOfOrder>>

\* the magick process of frame i (0-based) of window w ends: the task writes
\* means[idx] and finishes, and the limiter starts the next queued task
ProcEnd(w, i, result) ==
    /\ call[w] \in {"pending", "rejected"}
    /\ i < Len(proc[w])
    /\ proc[w][i + 1] = "running"
    /\ means' = [means EXCEPT ![w] = ArraySet(means[w], i, meanOf(result))]
    /\ proc' = [proc EXCEPT ![w] =
                   limitStart([proc[w] EXCEPT ![i + 1] =
                                  IF procSucceeded(result) THEN "ok" ELSE "failed"])]
    /\ call' = [call EXCEPT ![w] = IF taskRejects(result) THEN "rejected" ELSE @]
    /\ outOfOrder' = [outOfOrder EXCEPT ![w] =
                         @ \/ (\E j \in running(proc[w]) : j < i + 1)]
    /\ UNCHANGED <<parallelism, frameBuffers>>

\* the call returning as soon as one task has finished (Promise.race)
ReturnMeans_FirstTaskDone(w) ==
    /\ call[w] = "pending"
    /\ \E i \in 1..Len(proc[w]) : proc[w][i] \in {"ok", "failed"}
    /\ call' = [call EXCEPT ![w] = "returned"]
    /\ UNCHANGED <<parallelism, frameBuffers, proc, means, outOfOrder>>

\* await Promise.all(tasks) is over: every task has finished; return means
ReturnMeans(w) ==
    /\ call[w] = "pending"
    /\ \A i \in 1..Len(proc[w]) : proc[w][i] \in {"ok", "failed"}
    /\ call' = [call EXCEPT ![w] = "returned"]
    /\ UNCHANGED <<parallelism, frameBuffers, proc, means, outOfOrder>>

----------------------------------------------------------------------------
(* blackBoundaries.ts: getFrameMeans of the debug mode *)

\* the value the loop pushes: isNaN(mean) ? 1 : mean in the try block, 1 in the
\* catch block
debugMeanOf(result) ==
    IF result.event = "close" /\ result.code = 0
    THEN LET mean == parseFloat(result)
         IN  IF mean = NaN THEN MEAN_ONE ELSE mean
    ELSE MEAN_ONE

\* the processes of all the files spawned at once, none awaited before the next
loopNext_AllAtOnce(p) ==
    [i \in 1..Len(p) |-> IF p[i] = "queued" THEN "running" ELSE p[i]]

\* for (const file of files): the process of the next file is spawned
loopNext(p) ==
    IF queued(p) # {}
    THEN LET i == CHOOSE i \in queued(p) : \A j \in queued(p) : i <= j
         IN  [p EXCEPT ![i] = "running"]
    ELSE p

\* the loop of getFrameMeans over the given files, up to its first process
loopStart(pngs) == loopNext([i \in 1..Len(pngs) |-> "queued"])

\* getFrameMeans(dir, label), up to the first process: the directory's frames,
\* sorted; means = []
CallDebugScorer(w, pngs) ==
    /\ call[w] = "idle"
    /\ call' = [call EXCEPT ![w] = "pending"]
    /\ frameBuffers' = [frameBuffers EXCEPT ![w] = pngs]
    /\ means' = [means EXCEPT ![w] = << >>]
    /\ proc' = [proc EXCEPT ![w] = loopStart(pngs)]
    /\ UNCHANGED <<parallelism, outOfOrder>>

\* the magick process of the loop's current file ends: means.push, next file
DebugProcEnd(w, i, result) ==
    /\ call[w] = "pending"
    /\ i < Len(proc[w])
    /\ proc[w][i + 1] = "running"
    /\ means' = [means EXCEPT ![w] = Append(means[w], debugMeanOf(result))]
    /\ proc' = [proc EXCEPT ![w] =
                   loopNext([proc[w] EXCEPT ![i + 1] =
                                IF procSucceeded(result) THEN "ok" ELSE "failed"])]
    /\ UNCHANGED <<parallelism, call, frameBuffers, outOfOrder>>

\* no scorer call has been made
ScorersIdle ==
    /\ call = [w \in Windows |-> "idle"]
    /\ frameBuffers = [w \in Windows |-> << >>]
    /\ proc = [w \in Windows |-> << >>]
    /\ means = [w \in Windows |-> << >>]
    /\ outOfOrder = [w \in Windows |-> FALSE]

----------------------------------------------------------------------------
(* blackBoundaries.ts: detectBlackBoundariesWithMagick up to the resolver *)

\* the process ended with the 'close' event and exit code 0
toolSucceeded(result) == result.event = "close" /\ result.code = 0

\* what the ffmpeg process of getTotalDuration does: the 'error' event, or the
\* 'close' event with its exit code and whether its output holds a Duration
DurationResults(durations) ==
    { [event |-> "error", code |-> 0, match |-> FALSE, value |-> 0],
      [event |-> "close", code |-> 1, match |-> FALSE, value |-> 0],
      [event |-> "close", code |-> 0, match |-> FALSE, value |-> 0] }
    \cup {[event |-> "close", code |-> 0, match |-> TRUE, value |-> d] : d \in durations}

\* what the ffmpeg process of detectSilencePeriods does
SilenceResults(inputs) ==
    { [event |-> "error", code |-> 0, periods |-> << >>],
      [event |-> "close", code |-> 1, periods |-> << >>] }
    \cup {[event |-> "close", code |-> 0, periods |-> p] : p \in inputs}

\* what the ffmpeg process of detectAudioLevels does, with the samples parsed
\* from its output
AudioResults(inputs) ==
    { [event |-> "error", code |-> 0, levels |-> << >>],
      [event |-> "close", code |-> 1, levels |-> << >>] }
    \cup {[event |-> "close", code |-> 0, levels |-> l] : l \in inputs}

\* what the ffmpeg process that extracts a window's frames does, with the frames
\* it has written by then (none when it could not be spawned)
ExtractResults(inputs) ==
    {[event |-> "error", code |-> 0, frames |-> << >>]}
    \cup {[event |-> "close", code |-> c, frames |-> f] : c \in {0, 1}, f \in inputs}

\* the probes of a detection, in the order in which they are awaited
Probes == {"duration", "silence", "audio"}

\* no probe has been started
ProbesIdle == probe = [s \in Probes |-> "idle"]

\* the options of the trimmer that only processRecording reads, all unset
NoOptions ==
    [test |-> FALSE, yes |-> FALSE, transcode |-> FALSE, deleteOriginal |-> FALSE,
     metadata |-> FALSE]

\* the function is called on its own, outside TVHeadEndTrimmer.run
TrimmerIdle ==
    /\ options = NoOptions
    /\ files = << >>
    /\ fileIdx = 0
    /\ summaryRows = << >>
    /\ failedFiles = << >>
    /\ outcomes = << >>
    /\ detected = << >>
    /\ orphans = << >>
    /\ trims = {}
    /\ deleted = {}
    /\ trimEnded = {}
    /\ answered = {}
    /\ outputDir = "present"

\* splitPngFrames has not been called
DemuxIdle ==
    /\ buffer = << >>
    /\ frames = << >>

\* the silence detector's output is not looked into
SilenceIdle ==
    /\ printed = << >>
    /\ stderr = << >>

\* no metadata is looked up
CacheIdle ==
    /\ cacheFile = Null
    /\ now = 0
    /\ loading = Null
    /\ calls = << >>

\* let audioLevels = [], and no debug_frame_status file written
AudioIdle ==
    /\ audioLevels = << >>
    /\ frameStatus = Null

\* const duration = await getTotalDuration(filePath)
DurationEnd(result) ==
    /\ pc = "duration"
    /\ IF toolSucceeded(result) /\ result.match
       THEN /\ duration' = result.value
            /\ pc' = "silence"
            /\ probe' = [probe EXCEPT !["duration"] = "ok"]
       ELSE /\ pc' = "rejected"
            /\ probe' = [probe EXCEPT !["duration"] = "failed"]
            /\ UNCHANGED duration
    /\ UNCHANGED <<startWindow, endWindow, silencePeriods, startMeans, endMeans, startIdx, endIdx,
                   programStart, programEnd, notes>>
    /\ UNCHANGED <<scorerVars, keepDebug, extract, trimmerVars, demuxVars, silenceVars, cacheVars, audioVars>>

\* a failure of the silence detector taken as "no silence", the detection going on
SilenceEnd_FailureIgnored(result) ==
    /\ pc = "silence"
    /\ pc' = "audio"
    /\ IF toolSucceeded(result)
       THEN /\ silencePeriods' = result.periods
            /\ probe' = [probe EXCEPT !["silence"] = "ok"]
       ELSE /\ silencePeriods' = << >>
            /\ probe' = [probe EXCEPT !["silence"] = "failed"]
    /\ UNCHANGED <<duration, startWindow, endWindow, startMeans, endMeans, startIdx, endIdx,
                   programStart, programEnd, notes>>
    /\ UNCHANGED <<scorerVars, keepDebug, extract, trimmerVars, demuxVars, silenceVars, cacheVars, audioVars>>

\* try { silencePeriods = await detectSilencePeriods(...) } catch (err) { throw err }
SilenceEnd(result) ==
    /\ pc = "silence"
    /\ IF toolSucceeded(result)
       THEN /\ silencePeriods' = result.periods
            /\ pc' = "audio"
            /\ probe' = [probe EXCEPT !["silence"] = "ok"]
       ELSE /\ pc' = "rejected"
            /\ probe' = [probe EXCEPT !["silence"] = "failed"]
            /\ UNCHANGED silencePeriods
    /\ UNCHANGED <<duration, startWindow, endWindow, startMeans, endMeans, startIdx, endIdx,
                   programStart, programEnd, notes>>
    /\ UNCHANGED <<scorerVars, keepDebug, extract, trimmerVars, demuxVars, silenceVars, cacheVars, audioVars>>

\* a failed audio level sampler started again
AudioEnd_Retries(result) ==
    /\ pc = "audio"
    /\ IF toolSucceeded(result)
       THEN /\ pc' = "windows"
            /\ probe' = [probe EXCEPT !["audio"] = "ok"]
            /\ extract' = [w \in Windows |-> "running"]
       ELSE /\ pc' = "audio"
            /\ probe' = [probe EXCEPT !["audio"] = "failed"]
            /\ UNCHANGED extract
    /\ UNCHANGED <<resolverVars, scorerVars, keepDebug, trimmerVars, demuxVars, silenceVars, cacheVars, audioVars>>

\* try { audioLevels = await detectAudioLevels(...) } catch (err) { throw err };
\* then the two extractions are started, in either mode
AudioEnd(result) ==
    /\ pc = "audio"
    /\ IF toolSucceeded(result)
       THEN /\ pc' = "windows"
            /\ probe' = [probe EXCEPT !["audio"] = "ok"]
            /\ extract' = [w \in Windows |-> "running"]
            /\ audioLevels' = result.levels
       ELSE /\ pc' = "rejected"
            /\ probe' = [probe EXCEPT !["audio"] = "failed"]
            /\ UNCHANGED <<extract, audioLevels>>
    /\ UNCHANGED <<resolverVars, scorerVars, keepDebug, trimmerVars, demuxVars, silenceVars, cacheVars, frameStatus>>

\* in-memory mode: the ffmpeg process of extractFramesToBuffers of window w
\* ends.  Code 0: the window's pipeline goes on to getFrameMeansFromBuffers.
\* Otherwise the pipeline's promise rejects, and with it Promise.all and the
\* detection, if it has not rejected yet; the other window's pipeline goes on
ExtractFramesEnd(w, result) ==
    /\ ~keepDebug
    /\ extract[w] = "running"
    /\ IF toolSucceeded(result)
       THEN /\ extract' = [extract EXCEPT ![w] = "ok"]
            /\ CallScorer(w, result.frames)
            /\ UNCHANGED pc
       ELSE /\ extract' = [extract EXCEPT ![w] = "failed"]
            /\ pc' = IF pc = "windows" THEN "rejected" ELSE pc
            /\ UNCHANGED scorerVars
    /\ UNCHANGED <<resolverVars, keepDebug, probe, trimmerVars, demuxVars, silenceVars, cacheVars, audioVars>>

\* debug mode: the ffmpeg process of extractDiffFrames of window w ends.  A
\* failure is caught and logged.  When both extractions have ended,
\* getFrameMeans is called for both directories, with the frames found there
ExtractDiffFramesEnd(w, result) ==
    /\ keepDebug
    /\ extract[w] = "running"
    /\ LET ended == [extract EXCEPT ![w] = IF toolSucceeded(result) THEN "ok" ELSE "failed"]
           dirs == [frameBuffers EXCEPT ![w] = result.frames]
       IN  /\ extract' = ended
           /\ frameBuffers' = dirs
           /\ IF \A v \in Windows : ended[v] # "running"
              THEN /\ call' = [v \in Windows |-> "pending"]
                   /\ means' = [v \in Windows |-> << >>]
                   /\ proc' = [v \in Windows |-> loopStart(dirs[v])]
              ELSE UNCHANGED <<call, means, proc>>
    /\ UNCHANGED <<pc, resolverVars, parallelism, outOfOrder, keepDebug, probe, trimmerVars, demuxVars, silenceVars, cacheVars, audioVars>>

\* writeFrameStatus: the audio_level field of the line of each frame of the
\* window, getAudioLevelAt(i / FRAME_RATE, audioLevels)
writeFrameStatus(windowMeans, levels) ==
    [k \in 1..Len(windowMeans) |-> getAudioLevelAt(frameToSec(Some(k - 1)), levels)]

\* const [startMeansResult, endMeansResult] = await Promise.all([...]);
\* startMeans = startMeansResult; endMeans = endMeansResult;
\* if (keepDebug) { await writeFrameStatus(startMeans, ...); await writeFrameStatus(endMeans, ...) }
Join ==
    /\ pc = "windows"
    /\ \A w \in Windows : call[w] = "returned"
    /\ startMeans' = means["START"]
    /\ endMeans' = means["END"]
    /\ frameStatus' = IF keepDebug
                      THEN Some([w \in Windows |-> writeFrameStatus(means[w], audioLevels)])
                      ELSE frameStatus
    /\ pc' = "resolve"
    /\ UNCHANGED <<duration, startWindow, endWindow, silencePeriods, startIdx, endIdx,
                   programStart, programEnd, notes>>
    /\ UNCHANGED <<scorerVars, pipelineVars, trimmerVars, demuxVars, silenceVars, cacheVars, audioLevels>>

----------------------------------------------------------------------------
(* trimmer.ts: TVHeadEndTrimmer.run and processRecording *)

\* the window pipeline of window w of the current detection call, as it goes on
\* once the call has rejected: its extraction, and its scorer's tasks
orphanOf(w) ==
    [extract |-> extract[w],
     proc |-> [i \in 1..Len(proc[w]) |->
                  IF proc[w][i] \in {"ok", "failed"} THEN "done" ELSE proc[w][i]]]

\* the pipeline still has a process running or to be spawned
orphanLive(o) ==
    o.extract = "running" \/ \E i \in 1..Len(o.proc) : o.proc[i] # "done"

\* the processes a pipeline left behind has in flight
orphanRunning(o) == Cardinality({i \in 1..Len(o.proc) : o.proc[i] = "running"})

\* a sequence without its k-th element
RemoveAt(q, k) == [i \in 1..(Len(q) - 1) |-> IF i < k THEN q[i] ELSE q[i + 1]]

\* the orphans with orphan k replaced by o, or dropped when o has nothing left
orphansWith(k, o) ==
    IF orphanLive(o) THEN [orphans EXCEPT ![k] = o] ELSE RemoveAt(orphans, k)

\* what the ffmpeg process of a trim or trim+transcode command does, and whether
\* its output file is there afterwards (fs.stat)
TrimResults ==
    { [event |-> "error", code |-> 0, output |-> FALSE],
      [event |-> "close", code |-> 1, output |-> FALSE],
      [event |-> "close", code |-> 0, output |-> FALSE],
      [event |-> "close", code |-> 0, output |-> TRUE] }

\* the answers to 'Execute this trim command? (y/N): '
Answers == {"y", "Y", "n", ""}

\* response.toLowerCase()
toLowerCase(response) == IF response = "Y" THEN "y" ELSE response

\* a step of processRecording that does not end it
goto(next) ==
    /\ pc' = next
    /\ UNCHANGED <<resolverVars, scorerVars, pipelineVars, demuxVars, silenceVars, cacheVars, audioVars>>
    /\ UNCHANGED <<options, files, fileIdx, summaryRows, failedFiles, outcomes,
                   detected, orphans, outputDir>>

\* failedFiles without the push of the catch block
failedFilesAfter_ThrowNotRecorded(result, name) ==
    IF result = "false" THEN Append(failedFiles, name) ELSE failedFiles

\* failedFiles after the loop's body: if (!success) failedFiles.push(file.name)
\* in the try block, failedFiles.push(file.name) in the catch block
failedFilesAfter(result, name) ==
    IF result = "true" THEN failedFiles ELSE Append(failedFiles, name)

\* processRecording of the current file ends (result "true" or "false", or
\* "threw"): run pushes the summary row and, for a failure, the failed file, and
\* its loop goes to the next file, whose detection starts; the window pipelines
\* of the call that has rejected go on without it
processRecordingEnds(result, rejected) ==
    LET name == files[fileIdx + 1]
        success == result = "true"
    IN  /\ summaryRows' = Append(summaryRows, <<name, success>>)
        /\ failedFiles' = failedFilesAfter(result, name)
        /\ outcomes' = Append(outcomes, result)
        /\ detected' = Append(detected, [rejected |-> rejected,
                                         programStart |-> programStart,
                                         programEnd |-> programEnd])
        /\ orphans' = orphans \o SelectSeq(<<orphanOf("START"), orphanOf("END")>>, orphanLive)
        /\ fileIdx' = fileIdx + 1
        /\ pc' = IF fileIdx + 1 < Len(files) THEN "duration" ELSE "done"
        /\ duration' = 0
        /\ silencePeriods' = << >>
        /\ startMeans' = << >>
        /\ endMeans' = << >>
        /\ startIdx' = Null
        /\ endIdx' = Null
        /\ programStart' = Null
        /\ programEnd' = Null
        /\ notes' = << >>
        /\ call' = [w \in Windows |-> "idle"]
        /\ frameBuffers' = [w \in Windows |-> << >>]
        /\ proc' = [w \in Windows |-> << >>]
        /\ means' = [w \in Windows |-> << >>]
        /\ outOfOrder' = [w \in Windows |-> FALSE]
        /\ extract' = [w \in Windows |-> "idle"]
        /\ probe' = [s \in Probes |-> "idle"]
        /\ audioLevels' = << >>
        /\ frameStatus' = Null
        /\ UNCHANGED <<startWindow, endWindow, parallelism, keepDebug, options, files,
                       outputDir>>
        /\ UNCHANGED <<demuxVars, silenceVars, cacheVars>>

\* run up to its loop: ensureOutputDirectory makes the directory options.output
\* when fs.access fails, in test mode as in any other (a failing mkdir rejects
\* run); the detection of the first file starts
EnsureOutputDirectory(mkdirOk) ==
    /\ pc = "run"
    /\ IF outputDir = "absent"
       THEN IF mkdirOk
            THEN outputDir' = "created" /\ pc' = "duration"
            ELSE outputDir' = outputDir /\ pc' = "crashed"
       ELSE outputDir' = outputDir /\ pc' = "duration"
    /\ UNCHANGED <<resolverVars, scorerVars, pipelineVars, demuxVars, silenceVars, cacheVars, audioVars>>
    /\ UNCHANGED <<options, files, fileIdx, summaryRows, failedFiles, outcomes,
                   detected, orphans, trims, deleted, trimEnded, answered>>

\* the ffmpeg process of the trim or trim+transcode command is spawned
spawnTrim ==
    /\ trims' = trims \cup {fileIdx}
    /\ UNCHANGED deleted
    /\ goto("trim")

\* processRecording without the test of magickResult, null taken as 0
afterMetadata_NoNullCheck ==
    IF options.transcode
    THEN goto("settings") /\ UNCHANGED <<trims, deleted, trimEnded, answered>>
    ELSE IF options.test
         THEN processRecordingEnds("true", FALSE) /\ UNCHANGED <<trims, deleted, trimEnded, answered>>
         ELSE IF options.yes
              THEN spawnTrim /\ UNCHANGED <<trimEnded, answered>>
              ELSE goto("confirm") /\ UNCHANGED <<trims, deleted, trimEnded, answered>>

\* processRecording from the test of magickResult (line 456) to its next await:
\* null boundaries return false; trim+transcode asks for the encoding settings;
\* the plain trim returns true in test mode, spawns ffmpeg with --yes and asks
\* the user otherwise
afterMetadata ==
    IF programStart = Null \/ programEnd = Null
    THEN processRecordingEnds("false", FALSE) /\ UNCHANGED <<trims, deleted, trimEnded, answered>>
    ELSE IF options.transcode
         THEN goto("settings") /\ UNCHANGED <<trims, deleted, trimEnded, answered>>
         ELSE IF options.test
              THEN processRecordingEnds("true", FALSE) /\ UNCHANGED <<trims, deleted, trimEnded, answered>>
              ELSE IF options.yes
                   THEN spawnTrim /\ UNCHANGED <<trimEnded, answered>>
                   ELSE goto("confirm") /\ UNCHANGED <<trims, deleted, trimEnded, answered>>

\* catch (err) of run's loop: the detection of the current file has rejected
Catch ==
    /\ pc = "rejected"
    /\ fileIdx < Len(files)
    /\ processRecordingEnds("threw", TRUE)
    /\ UNCHANGED <<trims, deleted, trimEnded, answered>>

\* const totalDuration = await this.getTotalDuration(file.fullPath)
TotalDurationEnd(result) ==
    /\ pc = "returned"
    /\ fileIdx < Len(files)
    /\ IF ~(toolSucceeded(result) /\ result.match)
       THEN processRecordingEnds("threw", FALSE) /\ UNCHANGED <<trims, deleted, trimEnded, answered>>
       ELSE IF options.metadata
            THEN goto("metadata") /\ UNCHANGED <<trims, deleted, trimEnded, answered>>
            ELSE afterMetadata

\* the metadata lookup (parseNfo, login, searchSeries, loadEpisodes) is over;
\* anything it throws leaves processRecording
MetadataEnd(ok) ==
    /\ pc = "metadata"
    /\ IF ok
       THEN afterMetadata
       ELSE processRecordingEnds("threw", FALSE) /\ UNCHANGED <<trims, deleted, trimEnded, answered>>

\* executeTrimTranscodeCommand: await getBestEncodingSettings(this.options)
SettingsEnd ==
    /\ pc = "settings"
    /\ IF options.test
       THEN processRecordingEnds("true", FALSE) /\ UNCHANGED <<trims, deleted, trimEnded, answered>>
       ELSE spawnTrim /\ UNCHANGED <<trimEnded, answered>>

\* executeTrimCommand: await askQuestion(...)
AnswerEnd(response) ==
    /\ pc = "confirm"
    /\ answered' = answered \cup {<<fileIdx, response>>}
    /\ IF toLowerCase(response) # "y"
       THEN processRecordingEnds("false", FALSE) /\ UNCHANGED <<trims, deleted, trimEnded>>
       ELSE spawnTrim /\ UNCHANGED trimEnded

\* an unlink by processRecording that does not look at success
unlinkedByRecording_WhateverSuccess(success, already) ==
    IF ~options.test /\ options.deleteOriginal /\ <<fileIdx, "ts">> \notin already
    THEN {<<fileIdx, "ts">>, <<fileIdx, "nfo">>}
    ELSE {}

\* executeTrimTranscodeCommand, once its output is there:
\* if (this.options.deleteOriginal && !this.options.test) await fs.unlink(inputFile)
unlinkedByCommand(success) ==
    IF success /\ options.transcode /\ options.deleteOriginal /\ ~options.test
    THEN {<<fileIdx, "ts">>}
    ELSE {}

\* processRecording: if (success && !this.options.test && this.options.deleteOriginal)
\* it unlinks the .ts file, then the .nfo file; the unlink of a .ts file that
\* is not there any more throws, and the catch block leaves the .nfo file
unlinkedByRecording(success, already) ==
    IF success /\ ~options.test /\ options.deleteOriginal /\ <<fileIdx, "ts">> \notin already
    THEN {<<fileIdx, "ts">>, <<fileIdx, "nfo">>}
    ELSE {}

\* the ffmpeg process of the trim or trim+transcode command ends: the command
\* returns true when it exited with code 0 and its output file is there (an
\* unlink of a file that is there succeeds)
TrimEnd(result) ==
    /\ pc = "trim"
    /\ LET success == toolSucceeded(result) /\ result.output
           byCommand == unlinkedByCommand(success)
           byRecording == unlinkedByRecording(success, deleted \cup byCommand)
       IN  /\ deleted' = deleted \cup byCommand \cup byRecording
           /\ processRecordingEnds(IF success THEN "true" ELSE "false", FALSE)
    /\ trimEnded' = trimEnded \cup {<<fileIdx, result>>}
    /\ UNCHANGED <<trims, answered>>

\* the ffmpeg process of a window pipeline left behind ends: with code 0 its
\* frames go to getFrameMeansFromBuffers
OrphanExtractEnd(k, result) ==
    /\ k \in 1..Len(orphans)
    /\ orphans[k].extract = "running"
    /\ orphans' = orphansWith(k,
           IF toolSucceeded(result)
           THEN [extract |-> "ok",
                 proc |-> limitStart([i \in 1..Len(result.frames) |-> "queued"])]
           ELSE [extract |-> "failed", proc |-> << >>])
    /\ UNCHANGED <<pc, resolverVars, scorerVars, pipelineVars, demuxVars, silenceVars, cacheVars, audioVars>>
    /\ UNCHANGED <<options, files, fileIdx, summaryRows, failedFiles, outcomes,
                   detected, trims, deleted, trimEnded, answered, outputDir>>

\* a magick process of a window pipeline left behind ends: its task finishes and
\* the limiter starts the next queued task
OrphanProcEnd(k, i) ==
    /\ k \in 1..Len(orphans)
    /\ i \in 1..Len(orphans[k].proc)
    /\ orphans[k].proc[i] = "running"
    /\ orphans' = orphansWith(k,
           [orphans[k] EXCEPT !.proc = limitStart([@ EXCEPT ![i] = "done"])])
    /\ UNCHANGED <<pc, resolverVars, scorerVars, pipelineVars, demuxVars, silenceVars, cacheVars, audioVars>>
    /\ UNCHANGED <<options, files, fileIdx, summaryRows, failedFiles, outcomes,
                   detected, trims, deleted, trimEnded, answered, outputDir>>

----------------------------------------------------------------------------
(* One scorer call on its own: getFrameMeansFromBuffers, or getFrameMeans of the
   debug mode when keepDebug is set *)

\* frame buffers whose images have pairwise distinct means
DistinctBuffers(n) == [i \in 1..n |-> 10 * i]

ParallelismInputs == {0, 1, 2}

InitScorer ==
    /\ pc = "scorer"
    /\ duration = 0
    /\ startWindow = 0
    /\ endWindow = 0
    /\ silencePeriods = << >>
    /\ startMeans = << >>
    /\ endMeans = << >>
    /\ startIdx = Null
    /\ endIdx = Null
    /\ programStart = Null
    /\ programEnd = Null
    /\ notes = << >>
    /\ parallelism \in ParallelismInputs
    /\ keepDebug \in BOOLEAN
    /\ extract = [w \in Windows |-> "idle"]
    /\ ProbesIdle
    /\ TrimmerIdle
    /\ DemuxIdle
    /\ SilenceIdle
    /\ CacheIdle
    /\ AudioIdle
    /\ call = [w \in Windows |-> "idle"]
    /\ \E n \in 0..MaxBuffers :
          frameBuffers = [w \in Windows |-> IF w = "START" THEN DistinctBuffers(n) ELSE << >>]
    /\ proc = [w \in Windows |-> << >>]
    /\ means = [w \in Windows |-> << >>]
    /\ outOfOrder = [w \in Windows |-> FALSE]

NextScorer ==
    \/ /\ ~keepDebug
       /\ CallScorer("START", frameBuffers["START"])
       /\ UNCHANGED <<pc, resolverVars, pipelineVars, trimmerVars, demuxVars, silenceVars, cacheVars, audioVars>>
    \/ /\ ~keepDebug
       /\ \E i \in 0..(Len(frameBuffers["START"]) - 1) :
             \E result \in ProcResults(At(frameBuffers["START"], i)) :
                 ProcEnd("START", i, result)
       /\ UNCHANGED <<pc, resolverVars, pipelineVars, trimmerVars, demuxVars, silenceVars, cacheVars, audioVars>>
    \/ /\ keepDebug
       /\ CallDebugScorer("START", frameBuffers["START"])
       /\ UNCHANGED <<pc, resolverVars, pipelineVars, trimmerVars, demuxVars, silenceVars, cacheVars, audioVars>>
    \/ /\ keepDebug
       /\ \E i \in 0..(Len(frameBuffers["START"]) - 1) :
             \E result \in ProcResults(At(frameBuffers["START"], i)) :
                 DebugProcEnd("START", i, result)
       /\ UNCHANGED <<pc, resolverVars, pipelineVars, trimmerVars, demuxVars, silenceVars, cacheVars, audioVars>>
    \/ /\ ReturnMeans("START")
       /\ UNCHANGED <<pc, resolverVars, pipelineVars, trimmerVars, demuxVars, silenceVars, cacheVars, audioVars>>

SpecScorer == InitScorer /\ [][NextScorer]_vars

\* the magick process spawned for frame i closes or errors
ProcCloses(i) ==
    /\ ~keepDebug
    /\ \E result \in ProcResults(At(frameBuffers["START"], i)) : ProcEnd("START", i, result)
    /\ UNCHANGED <<pc, resolverVars, pipelineVars, trimmerVars, demuxVars, silenceVars, cacheVars, audioVars>>

\* the continuation of await Promise.all(tasks) runs
Returns ==
    /\ ReturnMeans("START")
    /\ UNCHANGED <<pc, resolverVars, pipelineVars, trimmerVars, demuxVars, silenceVars, cacheVars, audioVars>>

\* the most frame buffers of a call whose termination is checked
MaxFairBuffers == 4

InitScorerFair ==
    /\ pc = "scorer"
    /\ duration = 0
    /\ startWindow = 0
    /\ endWindow = 0
    /\ silencePeriods = << >>
    /\ startMeans = << >>
    /\ endMeans = << >>
    /\ startIdx = Null
    /\ endIdx = Null
    /\ programStart = Null
    /\ programEnd = Null
    /\ notes = << >>
    /\ parallelism \in ParallelismInputs
    /\ keepDebug \in BOOLEAN
    /\ extract = [w \in Windows |-> "idle"]
    /\ ProbesIdle
    /\ TrimmerIdle
    /\ DemuxIdle
    /\ SilenceIdle
    /\ CacheIdle
    /\ AudioIdle
    /\ call = [w \in Windows |-> "idle"]
    /\ \E n \in 0..MaxFairBuffers :
          frameBuffers = [w \in Windows |-> IF w = "START" THEN DistinctBuffers(n) ELSE << >>]
    /\ proc = [w \in Windows |-> << >>]
    /\ means = [w \in Windows |-> << >>]
    /\ outOfOrder = [w \in Windows |-> FALSE]

\* the scorer call when every magick process that is spawned ends, and the
\* event loop runs the continuation that is ready
SpecScorerFair ==
    /\ InitScorerFair
    /\ [][NextScorer]_vars
    /\ \A i \in 0..(MaxFairBuffers - 1) : WF_vars(ProcCloses(i))
    /\ WF_vars(Returns)

----------------------------------------------------------------------------
(* Inputs of the resolver *)

\* means at the threshold (similarity 0.92) and just under it (0.919)
MeanValues == {80, 81}

\* similarities [0.50, 0.95, 0.97, 0.40]
ExampleStartMeans == <<500, 50, 30, 600>>

\* similarities [0.93, 0.94, 0.30]
ExampleEndMeans == <<70, 60, 700>>

SeqsUpTo(S, n) == UNION {[1..k -> S] : k \in 0..n}

MeansInputs == SeqsUpTo(MeanValues, MaxFrames) \cup {ExampleStartMeans, ExampleEndMeans}

Period(s, e) == [start |-> s, end |-> e]

SilenceInputs ==
    { << >>,
      <<Period(0, 1000)>>,
      <<Period(400, 1400)>>,
      <<Period(1000, 2200)>>,
      <<Period(0, 1000), Period(1000, 2200)>>,
      <<Period(0, 4000)>> }

DurationInputs == {1600, 4000}

\* the sample lists of the audio level sampler: none, one loud sample, and
\* samples that change within the windows
AudioInputs ==
    { << >>,
      <<[ts |-> 0, meanDb |-> 0 - 20]>>,
      <<[ts |-> 0, meanDb |-> 0 - 91], [ts |-> 200, meanDb |-> 0 - 35]>> }

EndWindowInputs == {2000}

StartWindowInputs == {1000}

\* the state in which the resolver starts: both windows scored, silence known
InitResolve ==
    /\ pc = "resolve"
    /\ duration \in DurationInputs
    /\ startWindow \in StartWindowInputs
    /\ endWindow \in EndWindowInputs
    /\ silencePeriods \in SilenceInputs
    /\ startMeans \in MeansInputs
    /\ endMeans \in MeansInputs
    /\ startIdx = Null
    /\ endIdx = Null
    /\ programStart = Null
    /\ programEnd = Null
    /\ notes = << >>
    /\ parallelism = 0
    /\ ScorersIdle
    /\ keepDebug = FALSE
    /\ extract = [w \in Windows |-> "idle"]
    /\ ProbesIdle
    /\ TrimmerIdle
    /\ DemuxIdle
    /\ SilenceIdle
    /\ CacheIdle
    /\ AudioIdle

NextResolve == Resolve

SpecResolve == InitResolve /\ [][NextResolve]_vars

----------------------------------------------------------------------------
(* detectBlackBoundariesWithMagick for one file *)

\* the frames a window's extraction yields, each by the mean of its image
FrameInputs == { << >>, <<80, 80>>, <<81, 80, 80>> }

\* the silence periods the detector finds
DetectedSilenceInputs == { << >>, <<Period(0, 4000)>> }

Init ==
    /\ pc = "duration"
    /\ duration = 0
    /\ startWindow \in StartWindowInputs
    /\ endWindow \in EndWindowInputs
    /\ silencePeriods = << >>
    /\ startMeans = << >>
    /\ endMeans = << >>
    /\ startIdx = Null
    /\ endIdx = Null
    /\ programStart = Null
    /\ programEnd = Null
    /\ notes = << >>
    /\ parallelism \in ParallelismInputs
    /\ ScorersIdle
    /\ keepDebug \in BOOLEAN
    /\ extract = [w \in Windows |-> "idle"]
    /\ ProbesIdle
    /\ TrimmerIdle
    /\ DemuxIdle
    /\ SilenceIdle
    /\ CacheIdle
    /\ AudioIdle

Next ==
    \/ \E result \in DurationResults(DurationInputs) : DurationEnd(result)
    \/ \E result \in SilenceResults(DetectedSilenceInputs) : SilenceEnd(result)
    \/ \E result \in AudioResults(AudioInputs) : AudioEnd(result)
    \/ \E w \in Windows : \E result \in ExtractResults(FrameInputs) :
          ExtractFramesEnd(w, result)
    \/ \E w \in Windows : \E result \in ExtractResults(FrameInputs) :
          ExtractDiffFramesEnd(w, result)
    \/ /\ ~keepDebug
       /\ \E w \in Windows : \E i \in 0..(Len(frameBuffers[w]) - 1) :
             \E result \in ProcResults(At(frameBuffers[w], i)) :
                 ProcEnd(w, i, result)
       /\ UNCHANGED <<pc, resolverVars, pipelineVars, trimmerVars, demuxVars, silenceVars, cacheVars, audioVars>>
    \/ /\ keepDebug
       /\ \E w \in Windows : \E i \in 0..(Len(frameBuffers[w]) - 1) :
             \E result \in ProcResults(At(frameBuffers[w], i)) :
                 DebugProcEnd(w, i, result)
       /\ UNCHANGED <<pc, resolverVars, pipelineVars, trimmerVars, demuxVars, silenceVars, cacheVars, audioVars>>
    \/ /\ \E w \in Windows : ReturnMeans(w)
       /\ UNCHANGED <<pc, resolverVars, pipelineVars, trimmerVars, demuxVars, silenceVars, cacheVars, audioVars>>
    \/ Join
    \/ Resolve

Spec == Init /\ [][Next]_vars

----------------------------------------------------------------------------
(* TVHeadEndTrimmer.run over a list of files *)

\* the lists of files of a run (two files may have the same name)
FileInputs == { <<"a.ts">>, <<"a.ts", "b.ts">>, <<"a.ts", "a.ts">> }

\* the options of a run
OptionInputs ==
    { NoOptions,
      [NoOptions EXCEPT !.yes = TRUE, !.deleteOriginal = TRUE],
      [NoOptions EXCEPT !.test = TRUE, !.metadata = TRUE],
      [NoOptions EXCEPT !.yes = TRUE, !.transcode = TRUE, !.deleteOriginal = TRUE],
      [NoOptions EXCEPT !.transcode = TRUE],
      [NoOptions EXCEPT !.test = TRUE, !.yes = TRUE, !.transcode = TRUE,
                        !.deleteOriginal = TRUE] }

\* the frames a window's extraction yields in a run
RunFrameInputs == { << >>, <<80, 80>> }

\* the silence periods the detector finds in a run
RunSilenceInputs == { <<Period(0, 4000)>> }

\* the durations of the files of a run
RunDurationInputs == {4000}

\* options.parallelism of a run
RunParallelismInputs == {1}

\* run, at the first iteration of its loop: processRecording of the first file
\* has called detectBlackBoundariesWithMagick
InitRun ==
    /\ pc = "run"
    /\ duration = 0
    /\ startWindow \in StartWindowInputs
    /\ endWindow \in EndWindowInputs
    /\ silencePeriods = << >>
    /\ startMeans = << >>
    /\ endMeans = << >>
    /\ startIdx = Null
    /\ endIdx = Null
    /\ programStart = Null
    /\ programEnd = Null
    /\ notes = << >>
    /\ parallelism \in RunParallelismInputs
    /\ ScorersIdle
    /\ keepDebug \in BOOLEAN
    /\ extract = [w \in Windows |-> "idle"]
    /\ ProbesIdle
    /\ options \in OptionInputs
    /\ files \in FileInputs
    /\ fileIdx = 0
    /\ summaryRows = << >>
    /\ failedFiles = << >>
    /\ outcomes = << >>
    /\ detected = << >>
    /\ orphans = << >>
    /\ trims = {}
    /\ deleted = {}
    /\ trimEnded = {}
    /\ answered = {}
    /\ outputDir \in {"absent", "present"}
    /\ DemuxIdle
    /\ SilenceIdle
    /\ CacheIdle
    /\ AudioIdle

NextRun ==
    \/ \E mkdirOk \in BOOLEAN : EnsureOutputDirectory(mkdirOk)
    \/ \E result \in DurationResults(RunDurationInputs) : DurationEnd(result)
    \/ \E result \in SilenceResults(RunSilenceInputs) : SilenceEnd(result)
    \/ \E result \in AudioResults({<<[ts |-> 0, meanDb |-> 0 - 20]>>}) : AudioEnd(result)
    \/ \E w \in Windows : \E result \in ExtractResults(RunFrameInputs) :
          ExtractFramesEnd(w, result)
    \/ \E w \in Windows : \E result \in ExtractResults(RunFrameInputs) :
          ExtractDiffFramesEnd(w, result)
    \/ /\ ~keepDebug
       /\ \E w \in Windows : \E i \in 0..(Len(frameBuffers[w]) - 1) :
             \E result \in ProcResults(At(frameBuffers[w], i)) :
                 ProcEnd(w, i, result)
       /\ UNCHANGED <<pc, resolverVars, pipelineVars, trimmerVars, demuxVars, silenceVars, cacheVars, audioVars>>
    \/ /\ keepDebug
       /\ \E w \in Windows : \E i \in 0..(Len(frameBuffers[w]) - 1) :
             \E result \in ProcResults(At(frameBuffers[w], i)) :
                 DebugProcEnd(w, i, result)
       /\ UNCHANGED <<pc, resolverVars, pipelineVars, trimmerVars, demuxVars, silenceVars, cacheVars, audioVars>>
    \/ /\ \E w \in Windows : ReturnMeans(w)
       /\ UNCHANGED <<pc, resolverVars, pipelineVars, trimmerVars, demuxVars, silenceVars, cacheVars, audioVars>>
    \/ Join
    \/ Resolve
    \/ Catch
    \/ \E result \in DurationResults(RunDurationInputs) : TotalDurationEnd(result)
    \/ \E ok \in BOOLEAN : MetadataEnd(ok)
    \/ SettingsEnd
    \/ \E response \in Answers : AnswerEnd(response)
    \/ \E result \in TrimResults : TrimEnd(result)
    \/ \E k \in 1..Len(orphans) : \E result \in ExtractResults(RunFrameInputs) :
          OrphanExtractEnd(k, result)
    \/ \E k \in 1..Len(orphans) : \E i \in 1..Len(orphans[k].proc) :
          OrphanProcEnd(k, i)

SpecRun == InitRun /\ [][NextRun]_vars

----------------------------------------------------------------------------
(* splitPngFrames: the demultiplexer of ffmpeg's image2pipe output *)

\* const PNG_SIGNATURE = Buffer.from([0x89, 0x50, 0x4E, 0x47, 0x0D, 0x0A, 0x1A, 0x0A])
PNG_SIGNATURE == <<137, 80, 78, 71, 13, 10, 26, 10>>

\* buf.slice(start, end): the bytes at the 0-based offsets start .. end - 1
slice(buf, start, end) == SubSeq(buf, start + 1, end)

\* value stands in buf at the 0-based offset i
matchesAt(buf, value, i) ==
    /\ i + Len(value) <= Len(buf)
    /\ \A j \in 1..Len(value) : buf[i + j] = value[j]

\* buf.indexOf(value, byteOffset): the first offset >= byteOffset where value
\* stands, -1 when there is none
indexOf(buf, value, byteOffset) ==
    LET offsets == { i \in byteOffset..(Len(buf) - Len(value)) : matchesAt(buf, value, i) }
    IN  IF offsets = {} THEN 0 - 1
        ELSE CHOOSE i \in offsets : \A o \in offsets : i <= o

\* while ((idx = buffer.indexOf(PNG_SIGNATURE, idx)) !== -1)
\*     { indices.push(idx); idx += PNG_SIGNATURE.length; }
RECURSIVE signatureIndices(_, _, _)
signatureIndices(buf, idx, indices) ==
    LET at == indexOf(buf, PNG_SIGNATURE, idx)
    IN  IF at = 0 - 1 THEN indices
        ELSE signatureIndices(buf, at + Len(PNG_SIGNATURE), Append(indices, at))

\* a frame that runs to the end of the buffer whatever follows it
frameOf_ToBufferEnd(buf, indices, i) ==
    slice(buf, At(indices, i), Len(buf))

\* start = indices[i]; end = i + 1 < indices.length ? indices[i + 1] : buffer.length;
\* buffer.slice(start, end)
frameOf(buf, indices, i) ==
    LET start == At(indices, i)
        end == IF i + 1 < Len(indices) THEN At(indices, i + 1) ELSE Len(buf)
    IN  slice(buf, start, end)

splitPngFrames(buf) ==
    LET indices == signatureIndices(buf, 0, << >>)
    IN  [k \in 1..Len(indices) |-> frameOf(buf, indices, k - 1)]

\* one call of splitPngFrames(buffer)
SplitPngFrames ==
    /\ pc = "split"
    /\ frames' = splitPngFrames(buffer)
    /\ pc' = "splitDone"
    /\ UNCHANGED <<buffer, resolverVars, scorerVars, pipelineVars, trimmerVars, silenceVars, cacheVars, audioVars>>

\* the most pieces a stream is put together from
MaxChunks == 4

\* the pieces of a stream: a whole image (signature and two bytes of body), a
\* bare signature, the two halves of a signature, a byte of the signature
ChunkInputs ==
    { PNG_SIGNATURE \o <<73, 68>>,
      PNG_SIGNATURE,
      <<137, 80>>,
      <<78, 71, 13, 10, 26, 10>>,
      <<10>> }

\* the streams of at most n pieces
RECURSIVE Streams(_)
Streams(n) ==
    IF n = 0 THEN { << >> }
    ELSE LET shorter == Streams(n - 1)
         IN  shorter \cup { s \o c : s \in shorter, c \in ChunkInputs }

BufferInputs == Streams(MaxChunks)

InitSplit ==
    /\ pc = "split"
    /\ duration = 0
    /\ startWindow = 0
    /\ endWindow = 0
    /\ silencePeriods = << >>
    /\ startMeans = << >>
    /\ endMeans = << >>
    /\ startIdx = Null
    /\ endIdx = Null
    /\ programStart = Null
    /\ programEnd = Null
    /\ notes = << >>
    /\ parallelism = 0
    /\ ScorersIdle
    /\ keepDebug = FALSE
    /\ extract = [w \in Windows |-> "idle"]
    /\ ProbesIdle
    /\ TrimmerIdle
    /\ buffer \in BufferInputs
    /\ frames = << >>
    /\ SilenceIdle
    /\ CacheIdle
    /\ AudioIdle

NextSplit == SplitPngFrames

SpecSplit == InitSplit /\ [][NextSplit]_vars

----------------------------------------------------------------------------
(* detectSilencePeriods: the parser of ffmpeg's silencedetect output.
   Strings are sequences of characters. A number read by parseFloat is kept in
   ten-thousandths (the fifth and later decimals never change
   Math.round(x * 1000)). *)

NEWLINE == "\n"

\* the literal parts of silenceEndPattern,
\* /silence_end: ([\d.]+) \| silence_duration: ([\d.]+)/
SILENCE_END_LITERAL ==
    <<"s", "i", "l", "e", "n", "c", "e", "_", "e", "n", "d", ":", " ">>

SILENCE_DURATION_LITERAL ==
    <<" ", "|", " ", "s", "i", "l", "e", "n", "c", "e", "_", "d", "u",
    "r", "a", "t", "i", "o", "n", ":", " ">>

\* \d
DecimalDigits == { "0", "1", "2", "3", "4", "5", "6", "7", "8", "9" }

digitValue(c) ==
    CASE c = "0" -> 0 [] c = "1" -> 1 [] c = "2" -> 2 [] c = "3" -> 3 [] c = "4" -> 4
      [] c = "5" -> 5 [] c = "6" -> 6 [] c = "7" -> 7 [] c = "8" -> 8 [] c = "9" -> 9

\* [\d.]
inClass(c) == c \in DecimalDigits \/ c = "."

\* the length of the longest run of [\d.] characters of str from the 0-based
\* offset i
RECURSIVE classRun(_, _)
classRun(str, i) ==
    IF i < Len(str) /\ inClass(str[i + 1]) THEN 1 + classRun(str, i + 1) ELSE 0

\* the length of the longest run of digits of str from the 0-based offset i
RECURSIVE digitRun(_, _)
digitRun(str, i) ==
    IF i < Len(str) /\ str[i + 1] \in DecimalDigits THEN 1 + digitRun(str, i + 1) ELSE 0

\* the number written by the n digits of str from the 0-based offset i
RECURSIVE digitsToNumber(_, _, _)
digitsToNumber(str, i, n) ==
    IF n = 0 THEN 0
    ELSE digitsToNumber(str, i, n - 1) * 10 + digitValue(str[i + n])

\* stderr.split('\n')
RECURSIVE split(_, _)
split(str, separator) ==
    LET at == indexOf(str, <<separator>>, 0)
    IN  IF at = 0 - 1 THEN <<str>>
        ELSE <<slice(str, 0, at)>> \o split(slice(str, at + 1, Len(str)), separator)

\* silenceEndPattern tried at the 0-based offset p of line: the two groups, or
\* Null. Each group is the longest run of [\d.]: a shorter first group would
\* have to be followed by a space, and nothing follows the second group.
matchAt(line, p) ==
    LET a  == p + Len(SILENCE_END_LITERAL)
        n1 == classRun(line, a)
        b  == a + n1
        c  == b + Len(SILENCE_DURATION_LITERAL)
        n2 == classRun(line, c)
    IN  IF /\ matchesAt(line, SILENCE_END_LITERAL, p)
           /\ n1 > 0
           /\ matchesAt(line, SILENCE_DURATION_LITERAL, b)
           /\ n2 > 0
        THEN Some(<<slice(line, a, b), slice(line, c, c + n2)>>)
        ELSE Null

\* line.match(silenceEndPattern): the leftmost match, <<m[1], m[2]>>, or Null
match(line) ==
    LET at == { p \in 0..(Len(line) - 1) : matchAt(line, p) # Null }
    IN  IF at = {} THEN Null
        ELSE matchAt(line, CHOOSE p \in at : \A q \in at : p <= q)

\* parseFloat(m[k]), in ten-thousandths: the longest prefix of str that is a
\* decimal literal (digits, then a point and digits; one digit at least), NaN
\* when there is none
parseFloatOf(str) ==
    LET n      == digitRun(str, 0)
        point  == n < Len(str) /\ str[n + 1] = "."
        f      == IF point THEN digitRun(str, n + 1) ELSE 0
        kept   == IF f < 4 THEN f ELSE 4
        scale  == CASE kept = 0 -> 10000 [] kept = 1 -> 1000 [] kept = 2 -> 100
                    [] kept = 3 -> 10 [] kept = 4 -> 1
    IN  IF n + f = 0 THEN NaN
        ELSE digitsToNumber(str, 0, n) * 10000 + digitsToNumber(str, n + 1, kept) * scale

\* a rounding that drops the decimals
roundToMs_Floor(x) ==
    IF x = NaN THEN NaN ELSE x \div 10

\* Math.round(x * 1000), x in ten-thousandths: halves go up
roundToMs(x) ==
    IF x = NaN THEN NaN ELSE (x + 5) \div 10

\* const start = end - duration
minus(a, b) == IF a = NaN \/ b = NaN THEN NaN ELSE a - b

\* for (const line of stderr.split('\n')) { ... silencePeriods.push({ start, end }) }
RECURSIVE parsePeriods(_)
parsePeriods(lines) ==
    IF lines = << >> THEN << >>
    ELSE LET m == match(Head(lines))
         IN  IF m = Null THEN parsePeriods(Tail(lines))
             ELSE LET end      == roundToMs(parseFloatOf(Val(m)[1]))
                      ms       == roundToMs(parseFloatOf(Val(m)[2]))
                  IN  <<Period(minus(end, ms), end)>> \o parsePeriods(Tail(lines))

\* the number of line ends in str
lineEnds(str) == Cardinality({ i \in 1..Len(str) : str[i] = NEWLINE })

\* proc.stderr.on('data', (data) => { stderr += data.toString(); }): the next
\* line ffmpeg has printed arrives
StderrData ==
    /\ pc = "silencedetect"
    /\ lineEnds(stderr) < Len(printed)
    /\ stderr' = stderr \o printed[lineEnds(stderr) + 1].text \o <<NEWLINE>>
    /\ UNCHANGED <<pc, printed, resolverVars, scorerVars, pipelineVars, trimmerVars, demuxVars,
                   cacheVars, audioVars>>

\* proc.on('close', (code) => ...), after the whole output has arrived
SilenceClose(code) ==
    /\ pc = "silencedetect"
    /\ lineEnds(stderr) = Len(printed)
    /\ IF code # 0
       THEN /\ pc' = "rejected"
            /\ UNCHANGED silencePeriods
       ELSE /\ pc' = "resolved"
            /\ silencePeriods' = parsePeriods(split(stderr, NEWLINE))
    /\ UNCHANGED <<duration, startWindow, endWindow, startMeans, endMeans, startIdx, endIdx,
                   programStart, programEnd, notes>>
    /\ UNCHANGED <<scorerVars, pipelineVars, trimmerVars, demuxVars, silenceVars, cacheVars, audioVars>>

\* the most lines of a silencedetect run
MaxLines == 3

\* the lines ffmpeg prints, with the end and the duration (in ten-thousandths
\* of a second) a silence_end line reports
LineInputs ==
    {
      \* [silencedetect @ 0x5] silence_end: 12.500 | silence_duration: 2.000
      [text |-> <<"[", "s", "i", "l", "e", "n", "c", "e", "d", "e", "t", "e", "c",
                "t", " ", "@", " ", "0", "x", "5", "]", " ", "s", "i", "l", "e",
                "n", "c", "e", "_", "e", "n", "d", ":", " ", "1", "2", ".", "5",
                "0", "0", " ", "|", " ", "s", "i", "l", "e", "n", "c", "e", "_",
                "d", "u", "r", "a", "t", "i", "o", "n", ":", " ", "2", ".", "0",
                "0", "0">>,
       period |-> Some(<<125000, 20000>>)],
      \* silence_end: 0.0005 | silence_duration: 0.0004
      [text |-> <<"s", "i", "l", "e", "n", "c", "e", "_", "e", "n", "d", ":", " ",
                "0", ".", "0", "0", "0", "5", " ", "|", " ", "s", "i", "l", "e",
                "n", "c", "e", "_", "d", "u", "r", "a", "t", "i", "o", "n", ":",
                " ", "0", ".", "0", "0", "0", "4">>,
       period |-> Some(<<5, 4>>)],
      \* silence_end: 3 | silence_duration: 4.2496
      [text |-> <<"s", "i", "l", "e", "n", "c", "e", "_", "e", "n", "d", ":", " ",
                "3", " ", "|", " ", "s", "i", "l", "e", "n", "c", "e", "_", "d",
                "u", "r", "a", "t", "i", "o", "n", ":", " ", "4", ".", "2", "4",
                "9", "6">>,
       period |-> Some(<<30000, 42496>>)],
      \* silence_end: 1.0004 | silence_duration: 1
      [text |-> <<"s", "i", "l", "e", "n", "c", "e", "_", "e", "n", "d", ":", " ",
                "1", ".", "0", "0", "0", "4", " ", "|", " ", "s", "i", "l", "e",
                "n", "c", "e", "_", "d", "u", "r", "a", "t", "i", "o", "n", ":",
                " ", "1">>,
       period |-> Some(<<10004, 10000>>)],
      \* [silencedetect @ 0x5] silence_start: 10.5
      [text |-> <<"[", "s", "i", "l", "e", "n", "c", "e", "d", "e", "t", "e", "c",
                "t", " ", "@", " ", "0", "x", "5", "]", " ", "s", "i", "l", "e",
                "n", "c", "e", "_", "s", "t", "a", "r", "t", ":", " ", "1", "0",
                ".", "5">>,
       period |-> Null],
      \* silence_end: 12.500 silence_duration: 2.000
      [text |-> <<"s", "i", "l", "e", "n", "c", "e", "_", "e", "n", "d", ":", " ",
                "1", "2", ".", "5", "0", "0", " ", "s", "i", "l", "e", "n", "c",
                "e", "_", "d", "u", "r", "a", "t", "i", "o", "n", ":", " ", "2",
                ".", "0", "0", "0">>,
       period |-> Null],
      \* silence_end: 12.500 | silence_duration: 
      [text |-> <<"s", "i", "l", "e", "n", "c", "e", "_", "e", "n", "d", ":", " ",
                "1", "2", ".", "5", "0", "0", " ", "|", " ", "s", "i", "l", "e",
                "n", "c", "e", "_", "d", "u", "r", "a", "t", "i", "o", "n", ":",
                " ">>,
       period |-> Null],
      \* (an empty line)
      [text |-> << >>,
       period |-> Null],
      \* size=N/A time=00:00:12.50 bitrate=N/A
      [text |-> <<"s", "i", "z", "e", "=", "N", "/", "A", " ", "t", "i", "m", "e",
                "=", "0", "0", ":", "0", "0", ":", "1", "2", ".", "5", "0", " ",
                "b", "i", "t", "r", "a", "t", "e", "=", "N", "/", "A">>,
       period |-> Null]
    }

\* the outputs of at most n lines
RECURSIVE Outputs(_)
Outputs(n) ==
    IF n = 0 THEN { << >> }
    ELSE LET shorter == Outputs(n - 1)
         IN  shorter \cup { Append(o, l) : o \in shorter, l \in LineInputs }

PrintedInputs == Outputs(MaxLines)

ExitCodes == { 0, 1 }

InitSilence ==
    /\ pc = "silencedetect"
    /\ duration = 0
    /\ startWindow = 0
    /\ endWindow = 0
    /\ silencePeriods = << >>
    /\ startMeans = << >>
    /\ endMeans = << >>
    /\ startIdx = Null
    /\ endIdx = Null
    /\ programStart = Null
    /\ programEnd = Null
    /\ notes = << >>
    /\ parallelism = 0
    /\ ScorersIdle
    /\ keepDebug = FALSE
    /\ extract = [w \in Windows |-> "idle"]
    /\ ProbesIdle
    /\ TrimmerIdle
    /\ DemuxIdle
    /\ printed \in PrintedInputs
    /\ stderr = << >>
    /\ CacheIdle
    /\ AudioIdle

NextSilence ==
    \/ StderrData
    \/ \E code \in ExitCodes : SilenceClose(code)

SpecSilence == InitSilence /\ [][NextSilence]_vars

----------------------------------------------------------------------------
(* metadata/episodeService.ts and metadata/cache.ts: loadEpisodes and its cache
   file.  A JSON text is written as the value it denotes. *)

\* const cacheTTL = 1000 * 60 * 60 * 24
cacheTTL == 1000 * 60 * 60 * 24

\* the series slugs
Slugs == {"a", "b"}

\* JSON's null
JSON_NULL == 0 - 3

\* JSON.stringify of a number: NaN is written as null
jsonNumber(x) == IF x = NaN THEN JSON_NULL ELSE x

\* JSON.stringify of an episode list
jsonEpisodes(episodes) ==
    [k \in 1..Len(episodes) |->
        [id |-> episodes[k].id, season |-> jsonNumber(episodes[k].season)]]

\* JSON.stringify(cache, null, 2)
stringify(cache) ==
    [s \in Slugs |->
        IF cache[s] = Null THEN Null
        ELSE Some([timestamp |-> Val(cache[s]).timestamp,
                   episodes |-> jsonEpisodes(Val(cache[s]).episodes)])]

\* loadCache(path): JSON.parse of the file, {} when it cannot be read
loadCache == IF cacheFile = Null THEN [s \in Slugs |-> Null] ELSE Val(cacheFile)

\* an entry of exactly 24 hours taken as fresh
isFresh_Inclusive(entry, t) ==
    entry # Null /\ t - Val(entry).timestamp <= cacheTTL

\* entry && Date.now() - entry.timestamp < cacheTTL
isFresh(entry, t) ==
    entry # Null /\ t - Val(entry).timestamp < cacheTTL

\* the record of a call that has ended: its slug, the time of its freshness
\* check, the fetches it made, what it returned (Null when it threw), the cache
\* file before and after it, and the time it ended
callRecord(slug, at, fetches, result, before, after) ==
    [slug |-> slug, at |-> at, fetches |-> fetches, result |-> result,
     before |-> before, after |-> after, doneAt |-> now]

\* the most loadEpisodes calls of a run
MaxCalls == 3

\* the most steps of the clock
MaxTicks == 3

\* the time between two readings of the clock: twelve hours
ClockStep == cacheTTL \div 2

\* loadEpisodes(slug, options, logger) up to its first await after the cache is
\* loaded: a fresh entry is returned, otherwise the fetch begins
LoadEpisodes(slug) ==
    /\ pc = "metadata"
    /\ loading = Null
    /\ Len(calls) < MaxCalls
    /\ LET cache == loadCache
           entry == cache[slug]
       IN  IF isFresh(entry, now)
           THEN /\ calls' = Append(calls, callRecord(slug, now, 0, Some(Val(entry).episodes),
                                                    cacheFile, cacheFile))
                /\ UNCHANGED loading
           ELSE /\ loading' = Some([slug |-> slug, cache |-> cache, at |-> now,
                                    before |-> cacheFile])
                /\ UNCHANGED calls
    /\ UNCHANGED <<pc, cacheFile, now>>
    /\ UNCHANGED <<resolverVars, scorerVars, pipelineVars, trimmerVars, demuxVars, silenceVars, audioVars>>

\* await sleep(delayMs); const episodes = await retrieveEpisodeList(...) ends: a
\* failure leaves loadEpisodes; otherwise cache[slug] = { timestamp: Date.now(),
\* episodes }, saveCache writes the file, and the episodes are returned
FetchEnd(result) ==
    /\ pc = "metadata"
    /\ loading # Null
    /\ LET c == Val(loading)
           written == Some(stringify([c.cache EXCEPT ![c.slug] =
                              Some([timestamp |-> now, episodes |-> result.episodes])]))
       IN  IF result.ok
           THEN /\ cacheFile' = written
                /\ calls' = Append(calls, callRecord(c.slug, c.at, 1, Some(result.episodes),
                                                    c.before, written))
           ELSE /\ UNCHANGED cacheFile
                /\ calls' = Append(calls, callRecord(c.slug, c.at, 1, Null,
                                                    c.before, cacheFile))
    /\ loading' = Null
    /\ UNCHANGED <<pc, now>>
    /\ UNCHANGED <<resolverVars, scorerVars, pipelineVars, trimmerVars, demuxVars, silenceVars, audioVars>>

\* time passes
Tick ==
    /\ pc = "metadata"
    /\ now + ClockStep <= MaxTicks * ClockStep
    /\ now' = now + ClockStep
    /\ UNCHANGED <<pc, cacheFile, loading, calls>>
    /\ UNCHANGED <<resolverVars, scorerVars, pipelineVars, trimmerVars, demuxVars, silenceVars, audioVars>>

\* what retrieveEpisodeList does: it throws, or it returns the episodes it has
\* scraped (a season that is no number is NaN)
FetchResults ==
    { [ok |-> FALSE, episodes |-> << >>],
      [ok |-> TRUE, episodes |-> << >>],
      [ok |-> TRUE, episodes |-> <<[id |-> "1", season |-> 1], [id |-> "", season |-> NaN]>>] }

\* the cache file before the run: missing, or holding an entry for slug b
CacheFileInputs ==
    { Null,
      Some([s \in Slugs |->
               IF s = "b" THEN Some([timestamp |-> 0,
                                     episodes |-> <<[id |-> "7", season |-> 2]>>])
               ELSE Null]) }

InitCache ==
    /\ pc = "metadata"
    /\ duration = 0
    /\ startWindow = 0
    /\ endWindow = 0
    /\ silencePeriods = << >>
    /\ startMeans = << >>
    /\ endMeans = << >>
    /\ startIdx = Null
    /\ endIdx = Null
    /\ programStart = Null
    /\ programEnd = Null
    /\ notes = << >>
    /\ parallelism = 0
    /\ ScorersIdle
    /\ keepDebug = FALSE
    /\ extract = [w \in Windows |-> "idle"]
    /\ ProbesIdle
    /\ TrimmerIdle
    /\ DemuxIdle
    /\ SilenceIdle
    /\ AudioIdle
    /\ cacheFile \in CacheFileInputs
    /\ now = 0
    /\ loading = Null
    /\ calls = << >>

NextCache ==
    \/ \E slug \in Slugs : LoadEpisodes(slug)
    \/ \E result \in FetchResults : FetchEnd(result)
    \/ Tick

SpecCache == InitCache /\ [][NextCache]_vars

----------------------------------------------------------------------------
(* Runs of valid frames, as the claims speak of them *)

Max(a, b) == IF a >= b THEN a ELSE b

\* seconds of frame index j, in ms: j / frameRate
IdxToMs(j) == (j * 1000) \div FRAME_RATE

\* frames j .. j+N-1 of the start window exist and are all valid
StartRunAt(j) ==
    /\ j >= 0
    /\ j + N_CONSECUTIVE - 1 < Len(startMeans)
    /\ \A k \in 0..(N_CONSECUTIVE - 1) : startFrameCounts(j + k)

\* frames j .. j+N-1 of the end window exist and are all valid
EndRunAt(j) ==
    /\ j >= 0
    /\ j + N_CONSECUTIVE - 1 < Len(endMeans)
    /\ \A k \in 0..(N_CONSECUTIVE - 1) : endFrameCounts(j + k)

\* the maximal runs a..b of at least N valid frames of the start window
StartLongRuns ==
    {r \in (0..(Len(startMeans) - 1)) \X (0..(Len(startMeans) - 1)) :
        /\ r[2] - r[1] + 1 >= N_CONSECUTIVE
        /\ \A i \in r[1]..r[2] : startFrameCounts(i)
        /\ (r[1] = 0 \/ ~startFrameCounts(r[1] - 1))
        /\ (r[2] = Len(startMeans) - 1 \/ ~startFrameCounts(r[2] + 1))}

\* the maximal runs a..b of at least N valid frames of the end window
EndLongRuns ==
    {r \in (0..(Len(endMeans) - 1)) \X (0..(Len(endMeans) - 1)) :
        /\ r[2] - r[1] + 1 >= N_CONSECUTIVE
        /\ \A i \in r[1]..r[2] : endFrameCounts(i)
        /\ (r[1] = 0 \/ ~endFrameCounts(r[1] - 1))
        /\ (r[2] = Len(endMeans) - 1 \/ ~endFrameCounts(r[2] + 1))}

\* the frame index the start boundary names
StartBoundaryIdx == (Val(programStart) * FRAME_RATE) \div 1000

\* the frame index the end boundary names
EndBoundaryIdx == ((Val(programEnd) - (duration - endWindow)) * FRAME_RATE) \div 1000

AllSilent(mask) == \A i \in 1..Len(mask) : mask[i]

----------------------------------------------------------------------------
(* C1 *)

\* C1 (as stated): when the start window resolves, programStart is the LAST
\* index of a run of N consecutive valid frames, divided by the frame rate; for
\* similarities [0.50, 0.95, 0.97, 0.40], all silent, programStart = 2/frameRate.
C1_StartIsLastIndexOfRun ==
    (pc = "returned" /\ programStart # Null) =>
        /\ \E j \in 0..(Len(startMeans) - 1) :
              StartRunAt(j) /\ programStart = Some(IdxToMs(j + N_CONSECUTIVE - 1))
        /\ (startMeans = ExampleStartMeans /\ AllSilent(startValidMask))
               => programStart = Some(IdxToMs(2))

\* C1 (amended): when the start window resolves, programStart is the FIRST
\* index of the resolving run of N consecutive valid frames (the run whose last
\* index findConsecutive returned), divided by the frame rate; for similarities
\* [0.50, 0.95, 0.97, 0.40], all silent, the run is [1,2] and programStart =
\* 1/frameRate.
C1_StartIsFirstIndexOfRun ==
    (pc = "returned" /\ programStart # Null) =>
        /\ \E j \in 0..(Len(startMeans) - 1) :
              /\ StartRunAt(j)
              /\ startIdx = Some(j + N_CONSECUTIVE - 1)
              /\ programStart = Some(IdxToMs(j))
        /\ (startMeans = ExampleStartMeans /\ AllSilent(startValidMask))
               => (startIdx = Some(2) /\ programStart = Some(IdxToMs(1)))

\* the example of C1 has been resolved
C1_Witness ==
    /\ pc = "returned"
    /\ startMeans = ExampleStartMeans
    /\ AllSilent(startValidMask)
    /\ programStart = Some(200)

----------------------------------------------------------------------------
(* C2 *)

----------------------------------------------------------------------------
(* C3 *)

----------------------------------------------------------------------------
(* C4 *)

\* C4: when the end window resolves, programEnd = duration - endWindow + (the
\* first index of the resolving run of N consecutive valid frames) / frameRate;
\* for similarities [0.93, 0.94, 0.30] with the first two frames silent,
\* programEnd = duration - endWindow + 0/frameRate.
C4_EndIsFirstIndexOfRun ==
    (pc = "returned" /\ programEnd # Null) =>
        /\ \E j \in 0..(Len(endMeans) - 1) :
              /\ EndRunAt(j)
              /\ \A h \in 0..(j - 1) : ~EndRunAt(h)
              /\ programEnd = Some(duration - endWindow + IdxToMs(j))
        /\ (endMeans = ExampleEndMeans /\ endValidMask = <<TRUE, TRUE, FALSE>>)
               => programEnd = Some(duration - endWindow)

\* the example of C4 has been resolved
C4_Witness ==
    /\ pc = "returned"
    /\ endMeans = ExampleEndMeans
    /\ endValidMask = <<TRUE, TRUE, FALSE>>
    /\ programEnd = Some(duration - endWindow)

----------------------------------------------------------------------------
(* C5 *)

\* a frame with the given mean and media time is black and silent
BlackAndSilent(mean, tsMs) ==
    /\ 1000 - mean >= 920
    /\ \E k \in 1..Len(silencePeriods) :
          /\ tsMs >= silencePeriods[k].start - 200
          /\ tsMs < silencePeriods[k].end + 200

\* C5: every frame i of either window counts as valid in the run scan iff
\* 1 - mean[i] >= 0.92 and its timestamp (i * 1000 / frameRate, plus the end
\* window's absolute start offset for end-window frames) lies inside a silence
\* period widened by 200 ms on each side.
C5_ValidIffBlackAndSilent ==
    (pc = "returned") =>
        /\ \A i \in 0..(Len(startMeans) - 1) :
              startFrameCounts(i) <=> BlackAndSilent(At(startMeans, i), IdxToMs(i))
        /\ \A i \in 0..(Len(endMeans) - 1) :
              endFrameCounts(i) <=>
                  BlackAndSilent(At(endMeans, i), IdxToMs(i) + endWindowSs)

----------------------------------------------------------------------------
(* C6 *)

\* C6: for each side, the boundary is null iff the window has no run of N
\* consecutive valid frames (a window with fewer than N frames included), and
\* notes holds exactly one entry for each such side and nothing else.
C6_NullIffNoRun ==
    (pc = "returned") =>
        /\ (programStart = Null) <=> ~(\E j \in 0..(Len(startMeans) - 1) : StartRunAt(j))
        /\ (programEnd = Null) <=> ~(\E j \in 0..(Len(endMeans) - 1) : EndRunAt(j))
        /\ Len(notes) = (IF programStart = Null THEN 1 ELSE 0)
                        + (IF programEnd = Null THEN 1 ELSE 0)
        /\ (programStart = Null) <=>
               (\E k \in 1..Len(notes) : notes[k] = "No valid black period found at start")
        /\ (programEnd = Null) <=>
               (\E k \in 1..Len(notes) : notes[k] = "No valid black period found at end")

\* neither side resolves, one of them for want of N frames, and the notes name both
C6_Witness ==
    /\ pc = "returned"
    /\ Len(startMeans) < N_CONSECUTIVE
    /\ Len(endMeans) >= N_CONSECUTIVE
    /\ programStart = Null
    /\ programEnd = Null
    /\ Len(notes) = 2

----------------------------------------------------------------------------
(* C7 *)

\* C7: a frame whose image-statistics process could not be spawned, exited
\* non-zero or printed no number has mean 1 (similarity 0) and can never count
\* in a run; the scorer call does not fail, and every other frame has the mean
\* its own process reported.
C7_FailedFrameScoresOne ==
    /\ call["START"] # "rejected"
    /\ \A i \in 0..(Len(proc["START"]) - 1) :
          /\ proc["START"][i + 1] = "failed" =>
                /\ At(means["START"], i) = 1000
                /\ 1000 - At(means["START"], i) = 0
                /\ ~frameCounts(means["START"], SIMILARITY_THRESHOLD,
                                [k \in 1..Len(means["START"]) |-> TRUE], i)
          /\ proc["START"][i + 1] = "ok" =>
                At(means["START"], i) = frameBuffers["START"][i + 1]

\* a call has returned with a failed frame and a scored frame
C7_Witness ==
    /\ call["START"] = "returned"
    /\ \E i, j \in 1..Len(proc["START"]) :
          /\ proc["START"][i] = "failed"
          /\ proc["START"][j] = "ok"
          /\ i < j

----------------------------------------------------------------------------
(* C8 *)

\* C8: whatever the order in which the processes end, the result of
\* getFrameMeansFromBuffers has one entry per frame buffer, and entry i is the
\* mean of frame i (1 for a failed frame); until frame i's process has ended
\* entry i is not written.
C8_MeansByOriginalIndex ==
    ~keepDebug =>
        /\ \A i \in 0..(Len(proc["START"]) - 1) :
              At(means["START"], i) =
                  CASE proc["START"][i + 1] = "ok" -> frameBuffers["START"][i + 1]
                    [] proc["START"][i + 1] = "failed" -> 1000
                    [] OTHER -> Undefined
        /\ call["START"] = "returned" =>
              Len(means["START"]) = Len(frameBuffers["START"])

\* a call has returned after its processes ended out of order
C8_Witness ==
    /\ ~keepDebug
    /\ call["START"] = "returned"
    /\ outOfOrder["START"]
    /\ Len(frameBuffers["START"]) >= 3

----------------------------------------------------------------------------
(* C9 *)

\* C9: during a getFrameMeansFromBuffers call at most P image-statistics
\* processes are spawned and not yet ended, P = options.parallelism, 8 when it
\* is unset or 0.
C9_AtMostPInFlight ==
    ~keepDebug =>
        Cardinality({i \in 1..Len(proc["START"]) : proc["START"][i] = "running"})
            <= (IF parallelism = 0 THEN 8 ELSE parallelism)

\* with parallelism unset, 8 processes run and a frame waits
C9_Witness ==
    /\ ~keepDebug
    /\ parallelism = 0
    /\ Cardinality({i \in 1..Len(proc["START"]) : proc["START"][i] = "running"}) = 8
    /\ \E i \in 1..Len(proc["START"]) : proc["START"][i] = "queued"

----------------------------------------------------------------------------
(* C10 *)

\* C10: if the ffmpeg process that extracts the frames of either window exits
\* non-zero or cannot be spawned, detectBlackBoundariesWithMagick rejects and
\* returns no result for the file, with keepDebug as without it.
C10_ExtractionFailureRejects ==
    (\E w \in Windows : extract[w] = "failed") =>
        (pc # "returned" /\ (~keepDebug => pc = "rejected"))

----------------------------------------------------------------------------
(* C11 *)

\* C11: if the duration probe, the silence detector or the audio level sampler
\* fails (it cannot be spawned, exits non-zero, or no Duration is found), the
\* detection rejects and returns no result: nothing is retried (no other audio
\* stream is tried), no later probe is started, no window is extracted or
\* scored and no boundary is computed.
C11_ProbeFailureRejects ==
    \A s \in Probes :
        probe[s] = "failed" =>
            /\ pc = "rejected"
            /\ \A t \in Probes \ {s} : probe[t] \in {"ok", "idle"}
            /\ (s = "duration" => probe["silence"] = "idle")
            /\ (s \in {"duration", "silence"} => probe["audio"] = "idle")
            /\ \A w \in Windows : extract[w] = "idle" /\ call[w] = "idle"
            /\ programStart = Null /\ programEnd = Null /\ notes = << >>

\* the silence detector has failed after a successful duration probe
C11_Witness ==
    /\ probe["duration"] = "ok"
    /\ probe["silence"] = "failed"
    /\ pc = "rejected"

----------------------------------------------------------------------------
(* C12 *)

\* the names of the first k files whose processing threw or returned false
RECURSIVE FailedNames(_)
FailedNames(k) ==
    IF k = 0 THEN << >>
    ELSE IF outcomes[k] \in {"threw", "false"}
         THEN Append(FailedNames(k - 1), files[k])
         ELSE FailedNames(k - 1)

\* C12: run processes the files one at a time in list order; a file whose
\* processing throws or returns false is recorded as failed and the later files
\* are still processed; when the loop ends there is one summary row per file
\* and failedFiles holds exactly the files that threw or returned false.
C12_RunProcessesEveryFile ==
    /\ fileIdx <= Len(files)
    /\ Len(outcomes) = fileIdx
    /\ Len(summaryRows) = fileIdx
    /\ \A k \in 1..fileIdx : summaryRows[k] = <<files[k], outcomes[k] = "true">>
    /\ failedFiles = FailedNames(fileIdx)
    /\ (pc = "done") <=> (fileIdx = Len(files))
    /\ pc = "done" => Len(summaryRows) = Len(files)

\* the loop has ended after a first file that threw, a second that succeeded
C12_Witness ==
    /\ pc = "done"
    /\ Len(files) = 2
    /\ outcomes = <<"threw", "true">>
    /\ failedFiles = <<files[1]>>

----------------------------------------------------------------------------
(* C13 *)

\* the detection of the k-th processed file returned a result with a null side
NullDetected(k) ==
    /\ ~detected[k].rejected
    /\ (detected[k].programStart = Null \/ detected[k].programEnd = Null)

\* no trim process was spawned for file k (1-based) and nothing of it is deleted
Untouched(k) ==
    /\ (k - 1) \notin trims
    /\ <<k - 1, "ts">> \notin deleted
    /\ <<k - 1, "nfo">> \notin deleted

\* C13 (as stated): for a file whose detection returned programStart = null or
\* programEnd = null, processRecording returns false, spawns no trim or
\* trim+transcode process and deletes nothing.
C13_NullBoundaryReturnsFalse ==
    \A k \in 1..Len(detected) :
        NullDetected(k) => (outcomes[k] = "false" /\ Untouched(k))

\* C13 (amended): for a file whose detection returned programStart = null or
\* programEnd = null, processRecording never returns true: it returns false, or
\* it throws when getTotalDuration or the metadata lookup, which come before the
\* null check, fail; either way the file is in failedFiles, no trim or
\* trim+transcode process is spawned for it and nothing of it is deleted; and
\* while a file is at its confirmation, encoding settings or trim step, both
\* of its boundaries are non-null.
C13_NullBoundaryNeverTrimmed ==
    /\ \A k \in 1..Len(detected) :
          NullDetected(k) =>
              /\ outcomes[k] \in {"false", "threw"}
              /\ summaryRows[k] = <<files[k], FALSE>>
              /\ \E j \in 1..Len(failedFiles) : failedFiles[j] = files[k]
              /\ Untouched(k)
    /\ (pc \in {"settings", "confirm", "trim"} \/ fileIdx \in trims) =>
          (programStart # Null /\ programEnd # Null)

\* a file whose end boundary alone is null has returned false, after a file
\* that was trimmed
C13_Witness ==
    \E k \in 1..Len(detected) :
        /\ ~detected[k].rejected
        /\ detected[k].programStart # Null
        /\ detected[k].programEnd = Null
        /\ outcomes[k] = "false"
        /\ trims # {}

----------------------------------------------------------------------------
(* C14 *)

\* the most frames a window of the given length (ms) yields
MaxFramesOf(windowMs) == (windowMs * FRAME_RATE) \div 1000

\* the file is at least as long as the two windows together, and each window
\* has yielded at most its length times the frame rate frames
LongEnoughFile ==
    /\ duration >= startWindow + endWindow
    /\ Len(startMeans) <= MaxFramesOf(startWindow)
    /\ Len(endMeans) <= MaxFramesOf(endWindow)

\* C14: for a file with duration >= startWindow + endWindow, each window
\* yielding at most windowLength * frameRate frames, whenever both boundaries
\* resolve, programStart <= programEnd.
C14_StartNotAfterEnd ==
    (pc = "returned" /\ LongEnoughFile /\ programStart # Null /\ programEnd # Null)
        => Val(programStart) <= Val(programEnd)

\* both boundaries of a long enough file have resolved, the start boundary at
\* the last frames of a full start window
C14_Witness ==
    /\ pc = "returned"
    /\ LongEnoughFile
    /\ Len(startMeans) = MaxFramesOf(startWindow)
    /\ startIdx = Some(Len(startMeans) - 1)
    /\ programEnd # Null

----------------------------------------------------------------------------
(* C15 *)

\* the means of window w as the outputs of its collaborators give them: frame
\* i's mean is what its process printed, 1 when that process failed
OutputMeans(w) ==
    [i \in 1..Len(frameBuffers[w]) |->
        IF proc[w][i] = "ok" THEN frameBuffers[w][i] ELSE 1000]

\* C15: the result of a detection is a function of what its collaborators
\* returned (duration, silence periods, the frames of each window and what the
\* process of each frame printed): two runs in which these are the same return
\* the same programStart, programEnd and notes, whatever the interleaving of
\* the two window pipelines and the order in which the processes ended.
C15_ResultIsFunctionOfOutputs ==
    (pc = "returned") =>
        LET sMeans == OutputMeans("START")
            eMeans == OutputMeans("END")
            sMask == [i \in 1..Len(sMeans) |-> isFrameSilent(frameTsMs(i - 1), silencePeriods)]
            eMask == [i \in 1..Len(eMeans) |->
                         isFrameSilent(frameTsMs(i - 1) + endWindowStartMs, silencePeriods)]
            pStart == programStartOf(findConsecutive(sMeans, SIMILARITY_THRESHOLD,
                                                     N_CONSECUTIVE, "last", sMask))
            pEnd == programEndOf(findConsecutive(eMeans, SIMILARITY_THRESHOLD,
                                                 N_CONSECUTIVE, "first", eMask))
        IN  /\ programStart = pStart
            /\ programEnd = pEnd
            /\ notes = notesOf(pStart, pEnd)

\* a detection has returned both boundaries after the processes of its start
\* window ended out of order
C15_Witness ==
    /\ pc = "returned"
    /\ outOfOrder["START"]
    /\ Len(frameBuffers["START"]) = 3
    /\ programStart # Null
    /\ programEnd # Null

----------------------------------------------------------------------------
(* C16 *)

RECURSIVE SumRunning(_, _)
SumRunning(q, k) == IF k = 0 THEN 0 ELSE orphanRunning(q[k]) + SumRunning(q, k - 1)

\* the image-statistics processes spawned and not yet ended, of the current
\* detection call and of the window pipelines earlier calls left behind
InFlight ==
    Cardinality(running(proc["START"])) + Cardinality(running(proc["END"]))
    + SumRunning(orphans, Len(orphans))

\* C16: at every moment of a run over a list of files, at most 2 * P
\* image-statistics processes are in flight (P per window pipeline, two window
\* pipelines alive at once), also after a window pipeline of a file has failed
\* and the batch has moved on to the next file.
C16_AtMostTwicePInFlight ==
    InFlight <= 2 * (IF parallelism = 0 THEN 8 ELSE parallelism)

----------------------------------------------------------------------------
(* C17 *)

\* the pipeline of window w has finished: its extraction has ended and its
\* scorer call has returned, no process of it left
PipelineFinished(w) ==
    /\ extract[w] \in {"ok", "failed"}
    /\ call[w] = "returned"
    /\ \A i \in 1..Len(proc[w]) : proc[w][i] \in {"ok", "failed"}

\* the pipeline of window w goes on as if the other had not failed: its
\* extraction runs or has ended, and after a successful extraction its scorer
\* call is pending or has returned
PipelineGoesOn(w) ==
    /\ extract[w] \in {"running", "ok", "failed"}
    /\ extract[w] = "ok" => call[w] \in {"pending", "returned"}

\* C17: both window pipelines are started before either is awaited; the
\* resolver starts only after both have finished; if the extraction of one
\* window fails, the other pipeline is not cancelled and the detection call
\* fails.
C17_WindowsJoinedBeforeResolver ==
    /\ (extract["START"] = "idle") <=> (extract["END"] = "idle")
    /\ pc \in {"resolve", "returned"} => \A w \in Windows : PipelineFinished(w)
    /\ \A w \in Windows :
          extract[w] = "failed" =>
              /\ pc = "rejected"
              /\ \A v \in Windows \ {w} : PipelineGoesOn(v)

----------------------------------------------------------------------------
(* C18 *)

\* C18: getFrameMeansFromBuffers does not return before the image-statistics
\* invocation of every input frame has completed or failed: once it has
\* returned, there is one task per buffer, none queued behind the limiter and
\* none with its process still running.
C18_ReturnsAfterEveryFrame ==
    (~keepDebug /\ call["START"] = "returned") =>
        /\ Len(proc["START"]) = Len(frameBuffers["START"])
        /\ queued(proc["START"]) = {}
        /\ running(proc["START"]) = {}
        /\ \A i \in 1..Len(proc["START"]) : proc["START"][i] \in {"ok", "failed"}

\* a call with more buffers than slots has returned, one of its frames failed
C18_Witness ==
    /\ ~keepDebug
    /\ call["START"] = "returned"
    /\ Len(frameBuffers["START"]) > limitConcurrency
    /\ \E i \in 1..Len(proc["START"]) : proc["START"][i] = "failed"

----------------------------------------------------------------------------
(* C19 *)

\* C19: for every end-window frame i, the timestamp of its silence lookup and
\* the programEnd derived from it are windowOffset + i / frameRate, windowOffset
\* being the offset the end window was extracted at, max(0, duration -
\* endWindow), also for a file shorter than the end window; a resolved
\* programEnd is never negative.
C19_EndOffsetIsExtractionOffset ==
    (pc = "returned") =>
        /\ \A i \in 0..(Len(endMeans) - 1) :
              endValidMask[i + 1] = isFrameSilent(endWindowSs + IdxToMs(i), silencePeriods)
        /\ programEnd # Null =>
              /\ Val(programEnd) = endWindowSs + IdxToMs(Val(endIdx))
              /\ Val(programEnd) >= 0

----------------------------------------------------------------------------
(* C20 *)

\* the 0-based offsets of the buffer where the 8-byte PNG signature stands
SignatureOffsets ==
    { o \in 0..(Len(buffer) - 8) :
         /\ buffer[o + 1] = 137 /\ buffer[o + 2] = 80 /\ buffer[o + 3] = 78
         /\ buffer[o + 4] = 71  /\ buffer[o + 5] = 13 /\ buffer[o + 6] = 10
         /\ buffer[o + 7] = 26  /\ buffer[o + 8] = 10 }

\* the offset where the frame of the signature at o ends: the next signature,
\* or the end of the buffer
NextSignatureOrEnd(o) ==
    LET later == { q \in SignatureOffsets : q > o }
    IN  IF later = {} THEN Len(buffer)
        ELSE CHOOSE q \in later : \A r \in later : q <= r

\* C20: splitPngFrames applied to a buffer with k >= 0 occurrences of the
\* 8-byte PNG signature returns exactly k buffers in stream order; buffer j
\* starts at the offset of the j-th signature and ends immediately before the
\* next signature, the last one at the end of the input; k = 0 gives an empty
\* list.
C20_OneBufferPerSignature ==
    (pc = "splitDone") =>
        /\ Len(frames) = Cardinality(SignatureOffsets)
        /\ \A j \in 1..Len(frames) :
              \E o \in SignatureOffsets :
                 /\ Cardinality({ q \in SignatureOffsets : q < o }) = j - 1
                 /\ frames[j] = SubSeq(buffer, o + 1, NextSignatureOrEnd(o))

\* a stream of three images, after bytes that belong to none, has been split
C20_Witness ==
    /\ pc = "splitDone"
    /\ Cardinality(SignatureOffsets) = 3
    /\ 0 \notin SignatureOffsets
    /\ Len(frames) = 3

----------------------------------------------------------------------------
(* C21 *)

\* the silence_end lines among the first n printed lines
RECURSIVE ReportedBefore(_)
ReportedBefore(n) ==
    IF n = 0 THEN 0
    ELSE ReportedBefore(n - 1) + (IF printed[n].period # Null THEN 1 ELSE 0)

\* t seconds (given in ten-thousandths) in ms, rounded: round(t * 1000)
RoundedMs(t) == (t + 5) \div 10

\* C21: every line `silence_end: <t> | silence_duration: <d>` yields exactly one
\* SilencePeriod with end = round(t * 1000) ms and start = end - round(d * 1000)
\* ms, in the order of the lines, and no other line yields a period; every
\* period has start <= end.
C21_OnePeriodPerSilenceEndLine ==
    (pc = "resolved") =>
        /\ Len(silencePeriods) = ReportedBefore(Len(printed))
        /\ \A n \in 1..Len(printed) :
              printed[n].period # Null =>
                 LET p == silencePeriods[ReportedBefore(n)]
                     t == Val(printed[n].period)[1]
                     d == Val(printed[n].period)[2]
                 IN  /\ p.end = RoundedMs(t)
                     /\ p.start = p.end - RoundedMs(d)
        /\ \A k \in 1..Len(silencePeriods) : silencePeriods[k].start <= silencePeriods[k].end

\* the line of the example, between two lines that report nothing, has given
\* the period of the example, and a later line a second period
C21_Witness ==
    /\ pc = "resolved"
    /\ Len(printed) = 3
    /\ printed[1].period = Null
    /\ printed[2].period = Some(<<125000, 20000>>)
    /\ printed[3].period = Some(<<5, 4>>)
    /\ silencePeriods = <<Period(10500, 12500), Period(1, 1)>>

----------------------------------------------------------------------------
(* C22 *)

\* C22: in test mode a run modifies nothing on disk: it spawns no trim and no
\* transcode process, creates no output file or directory, and deletes no
\* original .ts or .nfo file, whatever the other options are.
C22_TestModeModifiesNothing ==
    options.test =>
        /\ trims = {}
        /\ deleted = {}
        /\ outputDir # "created"

----------------------------------------------------------------------------
(* C23 *)

\* the user has answered 'y' to the confirmation question for file k
AnsweredYes(k) == <<k, "y">> \in answered \/ <<k, "Y">> \in answered

\* C23: outside test mode and without --yes, no trim operation (plain trim or
\* trim+transcode) is executed on a file unless the user answered 'y' to the
\* confirmation question for that file; any other answer cancels the operation
\* and the file is reported as not successful.
C23_NoTrimWithoutConfirmation ==
    (~options.test /\ ~options.yes) =>
        /\ \A k \in trims : AnsweredYes(k)
        /\ \A k \in 0..(Len(outcomes) - 1) :
              (\E a \in answered : a[1] = k /\ ~AnsweredYes(k)) =>
                  /\ k \notin trims
                  /\ summaryRows[k + 1][2] = FALSE

----------------------------------------------------------------------------
(* C24 *)

\* C24: with --delete-original, outside test mode, after a file has been
\* processed successfully both the original .ts file and its .nfo file have
\* been deleted, in plain-trim mode and in transcode mode alike.
C24_OriginalsDeletedAfterSuccess ==
    (options.deleteOriginal /\ ~options.test) =>
        \A k \in 0..(Len(outcomes) - 1) :
            outcomes[k + 1] = "true" =>
                /\ <<k, "ts">> \in deleted
                /\ <<k, "nfo">> \in deleted

----------------------------------------------------------------------------
(* C27 *)

\* the trim or trim+transcode process of file k exited with code 0 and its
\* output file is there
TrimSucceeded(k) ==
    \E t \in trimEnded :
        /\ t[1] = k
        /\ t[2].event = "close"
        /\ t[2].code = 0
        /\ t[2].output

\* C27: across any run, an original recording file is deleted only if
\* deleteOriginal is set, test mode is off, and the trim or trim+transcode
\* process for that same file exited with code 0 and its output file exists; a
\* file whose processing failed, was cancelled or was skipped is never deleted.
C27_DeletedOnlyAfterSuccess ==
    /\ \A d \in deleted :
          /\ options.deleteOriginal
          /\ ~options.test
          /\ d[1] \in trims
          /\ TrimSucceeded(d[1])
    /\ \A k \in 0..(Len(outcomes) - 1) :
          outcomes[k + 1] # "true" => \A d \in deleted : d[1] # k

\* with two files, the first one failed and was kept, the second one was
\* trimmed and deleted
C27_Witness ==
    /\ pc = "done"
    /\ Len(files) = 2
    /\ outcomes[1] # "true"
    /\ 0 \in trims
    /\ <<1, "ts">> \in deleted

----------------------------------------------------------------------------
(* C25 *)

\* C25: whenever programStart is non-null, programStart >= 0 and programStart x
\* frameRate is the index of an existing start-window frame that is valid and
\* lies in a run of at least N consecutive valid frames; whenever programEnd is
\* non-null, (programEnd - (duration - endWindow)) x frameRate is the index of
\* an existing end-window frame that is valid and lies in a run of at least N
\* consecutive valid frames.
C25_BoundariesNameValidFrames ==
    (pc = "returned") =>
        /\ programStart # Null =>
              /\ Val(programStart) >= 0
              /\ (Val(programStart) * FRAME_RATE) % 1000 = 0
              /\ StartBoundaryIdx \in 0..(Len(startMeans) - 1)
              /\ startFrameCounts(StartBoundaryIdx)
              /\ \E j \in (StartBoundaryIdx - N_CONSECUTIVE + 1)..StartBoundaryIdx : StartRunAt(j)
        /\ programEnd # Null =>
              /\ ((Val(programEnd) - (duration - endWindow)) * FRAME_RATE) % 1000 = 0
              /\ EndBoundaryIdx \in 0..(Len(endMeans) - 1)
              /\ endFrameCounts(EndBoundaryIdx)
              /\ \E j \in (EndBoundaryIdx - N_CONSECUTIVE + 1)..EndBoundaryIdx : EndRunAt(j)

\* both boundaries are resolved, neither at the first frame of its window
C25_Witness ==
    /\ pc = "returned"
    /\ programStart # Null
    /\ programEnd # Null
    /\ StartBoundaryIdx > 0
    /\ EndBoundaryIdx > 0

----------------------------------------------------------------------------
(* C26 *)

\* an invocation that has ended, well or not
Ended(st) == st \in {"ok", "failed"}

\* no invocation that has ended is started again, and no frame gets a second one
NeverStartedAgain ==
    /\ \A s \in Probes : Ended(probe[s]) => probe'[s] = probe[s]
    /\ \A w \in Windows : Ended(extract[w]) => extract'[w] = extract[w]
    /\ \A w \in Windows : \A i \in 1..Len(proc[w]) :
          Ended(proc[w][i]) => (Len(proc'[w]) = Len(proc[w]) /\ proc'[w][i] = proc[w][i])

\* C26: during one detection call the duration probe, the silence detector and
\* the audio level sampler are each invoked exactly once, each window is
\* extracted exactly once and each frame is scored by exactly one
\* image-statistics invocation; an invocation that failed is never started again.
C26_EveryToolInvokedOnce ==
    /\ [][NeverStartedAgain]_vars
    /\ [](pc = "returned" =>
             /\ \A s \in Probes : probe[s] = "ok"
             /\ \A w \in Windows :
                   /\ Ended(extract[w])
                   /\ Len(proc[w]) = Len(frameBuffers[w])
                   /\ \A i \in 1..Len(proc[w]) : Ended(proc[w][i]))

\* a detection has returned although the scoring of one of its frames failed
C26_Witness ==
    /\ pc = "returned"
    /\ \E i \in 1..Len(proc["START"]) : proc["START"][i] = "failed"
    /\ \E i \in 1..Len(proc["END"]) : proc["END"][i] = "ok"

----------------------------------------------------------------------------
(* C28 *)

\* C28: if every image-statistics process that is spawned eventually closes or
\* errors, every getFrameMeansFromBuffers call eventually returns: every frame
\* waiting behind the limiter eventually gets a slot, whatever the number of
\* frames and the value of P >= 1.
C28_ScorerCallReturns ==
    /\ (~keepDebug /\ call["START"] = "pending") ~> (call["START"] = "returned")
    /\ \A i \in 1..MaxFairBuffers :
          (~keepDebug /\ i <= Len(proc["START"]) /\ proc["START"][i] = "queued")
              ~> (i <= Len(proc["START"]) /\ proc["START"][i] # "queued")

\* a call with one slot and more than two frames has returned
C28_Witness ==
    /\ ~keepDebug
    /\ limitConcurrency = 1
    /\ Len(frameBuffers["START"]) > 2
    /\ call["START"] = "returned"
    /\ Len(means["START"]) = Len(frameBuffers["START"])

----------------------------------------------------------------------------
(* C29 *)

\* 24 hours, in ms
DayMs == 24 * 60 * 60 * 1000

\* the entry a cache file holds for a slug, Null when it holds none
EntryOf(file, slug) == IF file = Null THEN Null ELSE Val(file)[slug]

\* the file held, at the call's freshness check, an entry for the call's slug
\* younger than 24 hours
HeldFreshEntry(c) ==
    /\ EntryOf(c.before, c.slug) # Null
    /\ c.at - Val(EntryOf(c.before, c.slug)).timestamp < DayMs

----------------------------------------------------------------------------
(* C30 *)

\* the start boundary as the silence periods and the start window's means
\* alone give it: the first index of the last run of N valid frames
StartFromRuns ==
    LET runs == { j \in 0..(Len(startMeans) - 1) : StartRunAt(j) }
    IN  IF runs = {}
        THEN Null
        ELSE Some(IdxToMs(CHOOSE j \in runs : \A h \in runs : h <= j))

\* the end boundary as the duration, the end window, the silence periods and
\* the end window's means alone give it: the first index of the first run
EndFromRuns ==
    LET runs == { j \in 0..(Len(endMeans) - 1) : EndRunAt(j) }
    IN  IF runs = {}
        THEN Null
        ELSE Some(duration - endWindow + IdxToMs(CHOOSE j \in runs : \A h \in runs : j <= h))

\* the notes as the two boundaries above give them
NotesFromRuns ==
    (IF StartFromRuns = Null THEN <<"No valid black period found at start">> ELSE << >>)
    \o (IF EndFromRuns = Null THEN <<"No valid black period found at end">> ELSE << >>)

\* C30: the BoundaryResult does not depend on the audio level samples.  In a
\* detection whose audio level sampler has succeeded, programStart, programEnd
\* and notes are what the duration, the end window, the silence periods and
\* the frame means determine, whatever sample list the sampler returned: so
\* two runs that differ only in the sample list return the same three values.
C30_ResultIgnoresAudioLevels ==
    (pc = "returned" /\ probe["audio"] = "ok") =>
        /\ programStart = StartFromRuns
        /\ programEnd = EndFromRuns
        /\ notes = NotesFromRuns

\* a debug-mode detection has returned both boundaries after the sampler
\* returned samples that are loud at the end boundary's frame, and the frame
\* status lines show them
C30_Witness ==
    /\ pc = "returned"
    /\ probe["audio"] = "ok"
    /\ keepDebug
    /\ audioLevels = <<[ts |-> 0, meanDb |-> 0 - 91], [ts |-> 200, meanDb |-> 0 - 35]>>
    /\ programStart # Null
    /\ programEnd # Null
    /\ frameStatus # Null
    /\ \E k \in 1..Len(Val(frameStatus)["END"]) :
          /\ k - 1 = EndBoundaryIdx
          /\ Val(frameStatus)["END"][k] = Some(0 - 35)

====
